---- MODULE Spec2Model ----
(***************************************************************************)
(* superfast_rsync: signature codec (src/src/signature.rs), the delta      *)
(* matchers diff and diff_parallel with their coalescing output state      *)
(* (src/src/diff.rs), and the BLAKE3 adapter (src/src/blake3/mod.rs).      *)
(*                                                                         *)
(* Byte strings are sequences of integers 0..255.  Signatures and deltas   *)
(* are modelled at the byte level, as the code serializes them.  The       *)
(* modules crate::crc, crate::md4, crate::consts, crate::hashmap_variant   *)
(* and crate::apply are not part of the sources at hand; they follow the   *)
(* written specification of the repository (sections 4.1, 4.2, 4.5, 4.6,   *)
(* 6.1-6.3).                                                               *)
(***************************************************************************)
EXTENDS Integers, Sequences, FiniteSets, TLC

(***************************************************************************)
(* Bounds of the model.                                                    *)
(***************************************************************************)
\* longest base and longest target of the exhaustive specification
MaxLen == 4
\* largest block_size given to calculate
MaxBlockSize == 4

\* The two byte values base and target are built from.  With these two
\* values the blocks <<203,134,134,203>> and <<134,203,203,134>> have the
\* same rolling checksum and the same first digest byte, under MD4 and
\* under BLAKE3: a real collision of the truncated strong hash.
Alphabet == {134, 203}

SeqsUpTo(S, n) == UNION {[1..k -> S] : k \in 0..n}

Buffers == SeqsUpTo(Alphabet, MaxLen)

Min(a, b) == IF a <= b THEN a ELSE b

\* n copies of s, one after the other
Repeat(s, n) == [i \in 1..(n * Len(s)) |-> s[((i - 1) % Len(s)) + 1]]

RECURSIVE Expand(_)
\* the bytes of a buffer held as runs: each run is a unit repeated some times
Expand(runs) ==
    IF runs = <<>> THEN <<>>
    ELSE Repeat(Head(runs).unit, Head(runs).times) \o Expand(Tail(runs))

\* the runs of a buffer given byte by byte
Whole(buf) == << [unit |-> buf, times |-> 1] >>

(***************************************************************************)
(* Fixed-width big-endian integers (to_be_bytes / from_be_bytes).  Values  *)
(* stay below 2^31 in every run of the model.                              *)
(***************************************************************************)
RECURSIVE to_be_bytes(_, _)
to_be_bytes(val, width) ==
    IF width = 0 THEN <<>>
    ELSE Append(to_be_bytes(val \div 256, width - 1), val % 256)

RECURSIVE from_be_bytes(_)
from_be_bytes(bytes) ==
    IF bytes = <<>> THEN 0
    ELSE from_be_bytes(SubSeq(bytes, 1, Len(bytes) - 1)) * 256 + bytes[Len(bytes)]

RECURSIVE Flatten(_)
Flatten(seqs) ==
    IF seqs = <<>> THEN <<>> ELSE Head(seqs) \o Flatten(Tail(seqs))

(***************************************************************************)
(* crate::consts (section 6 of the specification).                         *)
(***************************************************************************)
MD4_MAGIC == 1920139574
BLAKE2_MAGIC == 1920139575
BLAKE3_MAGIC == 1920139576
DELTA_MAGIC == 1920139830
RS_OP_END == 0
RS_OP_LITERAL_1 == 1
RS_OP_LITERAL_N1 == 65
RS_OP_LITERAL_N2 == 66
RS_OP_LITERAL_N4 == 67
RS_OP_LITERAL_N8 == 68
RS_OP_COPY_N1_N1 == 69

U8_MAX == 255
U16_MAX == 65535

(***************************************************************************)
(* crate::crc, the rolling checksum (section 4.1): two 16-bit halves,      *)
(* s1 = sum W[i], s2 = sum (n-i)*W[i], both mod 2^16.  A Crc is the pair   *)
(* <<s1, s2>>; its 32-bit value is (s2 << 16) | s1, serialized big-endian. *)
(***************************************************************************)
Crc_SIZE == 4

CrcNew == <<0, 0>>

RECURSIVE ByteSum(_, _, _)
\* buf[lo] + ... + buf[hi], mod 2^16
ByteSum(buf, lo, hi) ==
    IF lo > hi THEN 0
    ELSE IF lo = hi THEN buf[lo]
    ELSE LET mid == (lo + hi) \div 2
         IN  (ByteSum(buf, lo, mid) + ByteSum(buf, mid + 1, hi)) % 65536

RECURSIVE WeightedSum(_, _, _)
\* the sum of (Len(buf) - i + 1) * buf[i] for i in lo..hi, mod 2^16
WeightedSum(buf, lo, hi) ==
    IF lo > hi THEN 0
    ELSE IF lo = hi THEN ((Len(buf) - lo + 1) * buf[lo]) % 65536
    ELSE LET mid == (lo + hi) \div 2
         IN  (WeightedSum(buf, lo, mid) + WeightedSum(buf, mid + 1, hi)) % 65536

\* Crc::update: feed buf into crc.  Every byte adds to s1, and s2 adds s1
\* after every byte: s2 gains Len(buf) times the old s1 and each byte as
\* many times as there are bytes from it to the end of buf.
CrcUpdate(crc, buf) ==
    LET s1 == (crc[1] + ByteSum(buf, 1, Len(buf))) % 65536
        s2 == (crc[2] + ((Len(buf) * crc[1]) % 65536)
                      + WeightedSum(buf, 1, Len(buf))) % 65536
    IN  <<s1, s2>>

\* Crc::rotate: slide a window of `size` bytes by one
CrcRotate(crc, size, old_byte, new_byte) ==
    LET s1 == (crc[1] - old_byte + new_byte) % 65536
        s2 == (crc[2] - size * old_byte + s1) % 65536
    IN  <<s1, s2>>

CrcToBytes(crc) == to_be_bytes(crc[2], 2) \o to_be_bytes(crc[1], 2)

CrcFromBytes(bytes) ==
    <<from_be_bytes(SubSeq(bytes, 3, 4)), from_be_bytes(SubSeq(bytes, 1, 2))>>

(***************************************************************************)
(* Strong hashes.  The digests are those the real functions give on the    *)
(* byte strings of the model.                                              *)
(***************************************************************************)
MD4_SIZE == 16
BLAKE3_SIZE == 32

\* MD4 (RFC 1320) digests of every byte string over Alphabet of length 0..5.
Md4Digests ==
   (<<>> :> <<49, 214, 207, 224, 209, 106, 233, 49, 183, 60, 89, 215, 224, 192, 137, 192>>) @@
   (<<134>> :> <<110, 56, 116, 184, 139, 111, 248, 250, 214, 175, 250, 229, 91, 244, 196, 163>>) @@
   (<<203>> :> <<49, 139, 22, 57, 160, 137, 1, 73, 45, 236, 198, 231, 233, 121, 68, 226>>) @@
   (<<134, 134>> :> <<182, 168, 234, 224, 39, 169, 209, 238, 120, 55, 40, 229, 40, 181, 203, 64>>) @@
   (<<134, 203>> :> <<73, 214, 56, 154, 220, 151, 243, 200, 129, 125, 78, 50, 242, 150, 103, 80>>) @@
   (<<203, 134>> :> <<46, 37, 197, 140, 170, 225, 145, 70, 229, 104, 246, 75, 121, 244, 155, 198>>) @@
   (<<203, 203>> :> <<188, 198, 205, 104, 115, 115, 212, 29, 234, 15, 133, 244, 52, 187, 243, 83>>) @@
   (<<134, 134, 134>> :> <<226, 112, 227, 231, 14, 19, 193, 251, 205, 18, 189, 150, 181, 179, 246, 103>>) @@
   (<<134, 134, 203>> :> <<94, 75, 66, 36, 196, 14, 51, 0, 88, 200, 26, 127, 178, 17, 221, 52>>) @@
   (<<134, 203, 134>> :> <<234, 38, 159, 52, 101, 108, 255, 99, 52, 204, 21, 59, 215, 126, 5, 79>>) @@
   (<<134, 203, 203>> :> <<183, 243, 154, 136, 131, 203, 241, 92, 64, 220, 8, 157, 15, 57, 186, 79>>) @@
   (<<203, 134, 134>> :> <<43, 193, 23, 155, 56, 136, 38, 141, 27, 15, 238, 76, 235, 116, 21, 181>>) @@
   (<<203, 134, 203>> :> <<36, 242, 78, 139, 70, 159, 121, 251, 218, 229, 131, 72, 132, 38, 214, 72>>) @@
   (<<203, 203, 134>> :> <<37, 16, 15, 146, 162, 72, 247, 58, 194, 143, 61, 177, 167, 120, 7, 247>>) @@
   (<<203, 203, 203>> :> <<33, 241, 70, 44, 97, 146, 110, 136, 6, 86, 89, 11, 132, 112, 138, 9>>) @@
   (<<134, 134, 134, 134>> :> <<175, 4, 255, 238, 248, 152, 113, 51, 49, 53, 224, 128, 164, 110, 175, 179>>) @@
   (<<134, 134, 134, 203>> :> <<40, 76, 49, 78, 164, 161, 14, 91, 165, 170, 224, 215, 70, 7, 154, 2>>) @@
   (<<134, 134, 203, 134>> :> <<89, 117, 213, 122, 113, 66, 67, 164, 187, 202, 216, 201, 192, 106, 225, 43>>) @@
   (<<134, 134, 203, 203>> :> <<143, 61, 165, 231, 23, 114, 105, 239, 118, 148, 65, 8, 184, 162, 64, 171>>) @@
   (<<134, 203, 134, 134>> :> <<62, 73, 13, 18, 76, 138, 149, 111, 118, 19, 30, 222, 35, 129, 126, 240>>) @@
   (<<134, 203, 134, 203>> :> <<101, 180, 175, 127, 45, 72, 104, 200, 17, 138, 218, 39, 1, 168, 189, 5>>) @@
   (<<134, 203, 203, 134>> :> <<233, 187, 250, 79, 158, 63, 151, 232, 50, 133, 54, 141, 237, 198, 91, 121>>) @@
   (<<134, 203, 203, 203>> :> <<104, 38, 118, 71, 129, 59, 66, 153, 22, 149, 32, 201, 70, 214, 26, 118>>) @@
   (<<203, 134, 134, 134>> :> <<115, 245, 152, 244, 38, 177, 117, 40, 118, 147, 236, 141, 29, 127, 96, 253>>) @@
   (<<203, 134, 134, 203>> :> <<233, 136, 103, 141, 194, 181, 205, 174, 26, 20, 253, 214, 31, 87, 64, 227>>) @@
   (<<203, 134, 203, 134>> :> <<72, 3, 238, 168, 252, 197, 31, 252, 95, 249, 151, 28, 218, 121, 210, 153>>) @@
   (<<203, 134, 203, 203>> :> <<171, 172, 103, 143, 19, 240, 115, 21, 156, 221, 176, 98, 190, 19, 112, 29>>) @@
   (<<203, 203, 134, 134>> :> <<117, 226, 112, 38, 244, 35, 118, 237, 99, 97, 52, 233, 91, 38, 85, 241>>) @@
   (<<203, 203, 134, 203>> :> <<180, 165, 18, 224, 78, 70, 130, 40, 126, 240, 211, 1, 227, 114, 87, 233>>) @@
   (<<203, 203, 203, 134>> :> <<219, 1, 66, 246, 197, 130, 213, 105, 238, 153, 177, 165, 36, 90, 252, 9>>) @@
   (<<203, 203, 203, 203>> :> <<52, 37, 41, 230, 40, 110, 186, 182, 72, 26, 201, 187, 133, 131, 203, 181>>) @@
   (<<134, 134, 134, 134, 134>> :> <<188, 125, 163, 200, 174, 212, 81, 51, 174, 86, 203, 202, 18, 224, 191, 10>>) @@
   (<<134, 134, 134, 134, 203>> :> <<155, 197, 107, 240, 175, 238, 236, 90, 11, 139, 124, 27, 224, 142, 96, 249>>) @@
   (<<134, 134, 134, 203, 134>> :> <<17, 52, 68, 0, 66, 58, 181, 214, 42, 168, 253, 173, 71, 86, 41, 45>>) @@
   (<<134, 134, 134, 203, 203>> :> <<119, 131, 193, 234, 133, 11, 198, 218, 157, 205, 24, 128, 63, 211, 132, 1>>) @@
   (<<134, 134, 203, 134, 134>> :> <<144, 128, 32, 231, 35, 23, 222, 197, 30, 196, 105, 237, 173, 235, 240, 160>>) @@
   (<<134, 134, 203, 134, 203>> :> <<122, 154, 125, 143, 36, 224, 201, 131, 230, 181, 118, 235, 43, 136, 179, 224>>) @@
   (<<134, 134, 203, 203, 134>> :> <<223, 78, 183, 22, 214, 35, 121, 190, 229, 246, 72, 31, 164, 231, 69, 163>>) @@
   (<<134, 134, 203, 203, 203>> :> <<194, 185, 216, 147, 49, 245, 208, 171, 179, 148, 253, 104, 74, 7, 139, 183>>) @@
   (<<134, 203, 134, 134, 134>> :> <<213, 31, 197, 20, 146, 156, 223, 215, 229, 130, 165, 239, 54, 11, 8, 11>>) @@
   (<<134, 203, 134, 134, 203>> :> <<0, 24, 43, 192, 138, 23, 237, 200, 36, 132, 90, 49, 68, 141, 127, 218>>) @@
   (<<134, 203, 134, 203, 134>> :> <<56, 15, 247, 10, 209, 83, 224, 95, 202, 225, 104, 12, 39, 112, 124, 196>>) @@
   (<<134, 203, 134, 203, 203>> :> <<190, 229, 232, 41, 187, 166, 223, 101, 41, 93, 234, 88, 53, 147, 58, 29>>) @@
   (<<134, 203, 203, 134, 134>> :> <<159, 225, 143, 246, 34, 100, 58, 38, 34, 67, 146, 113, 117, 235, 88, 213>>) @@
   (<<134, 203, 203, 134, 203>> :> <<32, 103, 6, 69, 214, 55, 105, 152, 118, 10, 194, 118, 91, 184, 154, 184>>) @@
   (<<134, 203, 203, 203, 134>> :> <<231, 67, 94, 88, 194, 224, 114, 26, 240, 35, 22, 131, 218, 21, 23, 174>>) @@
   (<<134, 203, 203, 203, 203>> :> <<195, 120, 144, 152, 33, 40, 220, 202, 140, 42, 77, 245, 252, 23, 24, 159>>) @@
   (<<203, 134, 134, 134, 134>> :> <<193, 151, 120, 73, 63, 23, 105, 56, 199, 145, 88, 232, 181, 150, 196, 119>>) @@
   (<<203, 134, 134, 134, 203>> :> <<161, 234, 253, 148, 12, 238, 237, 132, 212, 155, 145, 192, 29, 234, 79, 87>>) @@
   (<<203, 134, 134, 203, 134>> :> <<167, 78, 250, 50, 196, 138, 222, 206, 88, 184, 227, 138, 8, 232, 174, 70>>) @@
   (<<203, 134, 134, 203, 203>> :> <<28, 73, 169, 171, 186, 42, 115, 25, 50, 22, 6, 130, 147, 238, 46, 130>>) @@
   (<<203, 134, 203, 134, 134>> :> <<15, 245, 141, 88, 24, 65, 38, 94, 106, 183, 146, 200, 192, 52, 13, 225>>) @@
   (<<203, 134, 203, 134, 203>> :> <<147, 68, 72, 129, 152, 115, 47, 47, 8, 79, 35, 209, 102, 65, 222, 49>>) @@
   (<<203, 134, 203, 203, 134>> :> <<33, 74, 158, 11, 33, 106, 145, 21, 144, 95, 11, 147, 146, 207, 163, 80>>) @@
   (<<203, 134, 203, 203, 203>> :> <<167, 202, 231, 54, 214, 155, 186, 181, 117, 173, 127, 155, 240, 206, 81, 232>>) @@
   (<<203, 203, 134, 134, 134>> :> <<226, 229, 210, 66, 132, 144, 4, 229, 242, 28, 158, 93, 159, 27, 147, 167>>) @@
   (<<203, 203, 134, 134, 203>> :> <<200, 105, 25, 20, 151, 52, 247, 28, 178, 8, 204, 169, 70, 47, 0, 107>>) @@
   (<<203, 203, 134, 203, 134>> :> <<181, 43, 171, 102, 67, 56, 184, 39, 93, 143, 232, 170, 46, 141, 24, 120>>) @@
   (<<203, 203, 134, 203, 203>> :> <<195, 196, 212, 149, 50, 68, 167, 194, 136, 84, 150, 226, 25, 240, 198, 167>>) @@
   (<<203, 203, 203, 134, 134>> :> <<15, 104, 120, 186, 64, 110, 135, 150, 76, 126, 176, 37, 42, 101, 150, 7>>) @@
   (<<203, 203, 203, 134, 203>> :> <<181, 81, 15, 82, 135, 238, 172, 104, 123, 39, 185, 12, 137, 129, 193, 240>>) @@
   (<<203, 203, 203, 203, 134>> :> <<162, 113, 180, 51, 62, 183, 8, 16, 22, 86, 187, 169, 176, 177, 3, 202>>) @@
   (<<203, 203, 203, 203, 203>> :> <<240, 168, 95, 253, 226, 79, 159, 246, 131, 40, 84, 113, 103, 69, 183, 207>>)

\* BLAKE3 digests (blake3::hash) of every byte string over Alphabet of length 0..5.
Blake3Digests ==
   (<<>> :> <<175, 19, 73, 185, 245, 249, 161, 166, 160, 64, 77, 234, 54, 220, 201, 73, 155, 203, 37, 201, 173, 193, 18, 183, 204, 154, 147, 202, 228, 31, 50, 98>>) @@
   (<<134>> :> <<111, 41, 67, 203, 36, 120, 107, 93, 200, 2, 163, 6, 19, 182, 27, 241, 39, 235, 78, 157, 80, 174, 85, 185, 139, 222, 183, 237, 65, 244, 224, 249>>) @@
   (<<203>> :> <<218, 212, 92, 153, 19, 226, 197, 191, 175, 148, 247, 216, 248, 251, 5, 123, 157, 92, 43, 199, 150, 165, 199, 109, 195, 238, 110, 243, 62, 82, 129, 182>>) @@
   (<<134, 134>> :> <<66, 73, 145, 237, 28, 81, 78, 95, 219, 4, 19, 26, 193, 30, 69, 126, 76, 77, 138, 201, 9, 241, 154, 221, 63, 41, 149, 79, 255, 192, 65, 182>>) @@
   (<<134, 203>> :> <<219, 77, 76, 182, 98, 150, 239, 242, 110, 219, 224, 177, 167, 176, 144, 18, 196, 216, 242, 207, 98, 43, 98, 83, 4, 155, 112, 225, 238, 14, 12, 248>>) @@
   (<<203, 134>> :> <<46, 161, 40, 9, 56, 235, 243, 94, 21, 183, 198, 41, 195, 245, 16, 250, 241, 250, 248, 152, 173, 48, 211, 107, 90, 32, 130, 15, 185, 62, 85, 114>>) @@
   (<<203, 203>> :> <<197, 82, 251, 38, 38, 246, 214, 85, 202, 151, 8, 14, 24, 142, 147, 1, 235, 245, 192, 59, 176, 237, 71, 155, 36, 38, 215, 14, 158, 139, 183, 186>>) @@
   (<<134, 134, 134>> :> <<46, 137, 212, 27, 32, 35, 129, 243, 152, 142, 50, 208, 151, 35, 227, 219, 8, 227, 198, 44, 175, 70, 53, 150, 240, 78, 17, 137, 183, 73, 22, 106>>) @@
   (<<134, 134, 203>> :> <<144, 91, 24, 251, 115, 236, 195, 204, 97, 169, 72, 247, 94, 175, 171, 25, 244, 121, 122, 58, 160, 255, 239, 179, 190, 206, 189, 230, 12, 197, 227, 89>>) @@
   (<<134, 203, 134>> :> <<180, 99, 171, 154, 31, 172, 165, 51, 225, 90, 138, 51, 84, 2, 20, 53, 132, 180, 117, 100, 220, 66, 120, 131, 253, 53, 40, 20, 71, 206, 190, 110>>) @@
   (<<134, 203, 203>> :> <<39, 56, 168, 250, 7, 167, 223, 56, 134, 40, 15, 63, 160, 70, 120, 73, 242, 138, 141, 91, 144, 123, 156, 81, 245, 169, 196, 203, 197, 155, 243, 87>>) @@
   (<<203, 134, 134>> :> <<48, 217, 58, 174, 133, 148, 162, 253, 192, 215, 45, 177, 236, 222, 32, 217, 203, 12, 181, 165, 218, 125, 83, 132, 7, 255, 101, 56, 59, 93, 107, 110>>) @@
   (<<203, 134, 203>> :> <<77, 0, 182, 159, 194, 40, 241, 194, 57, 55, 243, 254, 120, 122, 214, 0, 57, 66, 156, 165, 163, 23, 244, 5, 218, 217, 211, 213, 214, 88, 15, 198>>) @@
   (<<203, 203, 134>> :> <<88, 245, 200, 249, 97, 253, 146, 250, 181, 106, 157, 108, 13, 235, 177, 130, 160, 204, 65, 81, 69, 209, 75, 134, 30, 102, 60, 217, 161, 253, 118, 185>>) @@
   (<<203, 203, 203>> :> <<188, 252, 27, 74, 95, 192, 227, 71, 249, 106, 30, 55, 73, 123, 143, 110, 50, 19, 111, 9, 247, 81, 45, 158, 184, 159, 161, 245, 91, 235, 77, 177>>) @@
   (<<134, 134, 134, 134>> :> <<174, 22, 7, 233, 96, 65, 243, 65, 232, 57, 6, 40, 41, 232, 191, 102, 186, 246, 166, 109, 241, 34, 188, 42, 107, 128, 129, 92, 120, 31, 73, 144>>) @@
   (<<134, 134, 134, 203>> :> <<47, 229, 70, 210, 28, 171, 15, 63, 187, 136, 173, 216, 111, 92, 154, 84, 254, 83, 117, 197, 99, 114, 234, 13, 13, 159, 136, 37, 122, 56, 178, 202>>) @@
   (<<134, 134, 203, 134>> :> <<21, 0, 193, 238, 131, 132, 76, 206, 48, 141, 202, 35, 67, 157, 101, 163, 22, 39, 94, 193, 34, 216, 65, 202, 133, 240, 31, 54, 245, 56, 64, 221>>) @@
   (<<134, 134, 203, 203>> :> <<231, 24, 45, 201, 216, 171, 94, 102, 102, 236, 166, 145, 42, 213, 200, 100, 27, 189, 244, 207, 59, 31, 126, 3, 80, 18, 138, 72, 162, 19, 19, 187>>) @@
   (<<134, 203, 134, 134>> :> <<238, 217, 70, 170, 172, 86, 197, 203, 42, 29, 61, 80, 20, 241, 191, 114, 142, 80, 83, 68, 109, 244, 148, 211, 191, 120, 173, 142, 121, 171, 129, 148>>) @@
   (<<134, 203, 134, 203>> :> <<230, 136, 243, 150, 250, 106, 117, 253, 230, 118, 116, 177, 1, 242, 255, 76, 196, 137, 80, 66, 88, 125, 19, 109, 148, 180, 244, 175, 148, 72, 203, 74>>) @@
   (<<134, 203, 203, 134>> :> <<148, 195, 243, 53, 84, 87, 163, 154, 145, 167, 216, 57, 33, 226, 68, 193, 66, 237, 72, 47, 194, 74, 150, 69, 181, 94, 245, 130, 115, 130, 239, 108>>) @@
   (<<134, 203, 203, 203>> :> <<189, 137, 56, 31, 66, 25, 136, 5, 17, 146, 60, 183, 96, 45, 38, 37, 189, 104, 59, 94, 223, 238, 14, 21, 101, 167, 138, 184, 84, 10, 82, 94>>) @@
   (<<203, 134, 134, 134>> :> <<254, 213, 255, 86, 115, 49, 103, 84, 148, 252, 36, 87, 23, 32, 117, 172, 174, 78, 107, 228, 65, 105, 245, 236, 87, 161, 233, 2, 64, 101, 245, 70>>) @@
   (<<203, 134, 134, 203>> :> <<148, 27, 184, 83, 218, 24, 251, 159, 249, 217, 213, 123, 22, 84, 151, 127, 44, 251, 4, 154, 187, 33, 38, 215, 253, 7, 129, 121, 77, 188, 57, 120>>) @@
   (<<203, 134, 203, 134>> :> <<148, 203, 236, 21, 134, 161, 180, 157, 154, 76, 179, 200, 35, 146, 211, 96, 196, 7, 254, 170, 31, 145, 66, 236, 251, 75, 212, 191, 231, 153, 183, 210>>) @@
   (<<203, 134, 203, 203>> :> <<124, 39, 67, 86, 23, 26, 194, 42, 211, 122, 118, 131, 210, 132, 154, 13, 171, 164, 66, 182, 69, 86, 90, 188, 243, 235, 203, 69, 17, 162, 252, 196>>) @@
   (<<203, 203, 134, 134>> :> <<38, 132, 1, 227, 28, 74, 217, 241, 105, 14, 48, 82, 250, 185, 220, 87, 63, 17, 164, 141, 178, 67, 210, 236, 65, 180, 47, 113, 220, 232, 250, 241>>) @@
   (<<203, 203, 134, 203>> :> <<93, 171, 87, 163, 155, 231, 24, 221, 230, 242, 107, 121, 108, 253, 122, 253, 247, 36, 79, 68, 234, 20, 9, 215, 237, 205, 103, 141, 119, 251, 129, 102>>) @@
   (<<203, 203, 203, 134>> :> <<174, 80, 131, 36, 130, 210, 122, 63, 49, 189, 228, 98, 75, 165, 188, 18, 13, 138, 183, 235, 91, 247, 190, 127, 125, 108, 226, 81, 138, 197, 161, 128>>) @@
   (<<203, 203, 203, 203>> :> <<170, 220, 192, 246, 216, 83, 111, 72, 42, 32, 250, 187, 1, 64, 33, 4, 220, 54, 0, 39, 109, 177, 109, 214, 57, 203, 113, 191, 38, 255, 192, 20>>) @@
   (<<134, 134, 134, 134, 134>> :> <<83, 120, 41, 43, 92, 204, 246, 126, 27, 24, 126, 70, 248, 123, 123, 29, 12, 49, 181, 163, 150, 193, 78, 193, 160, 123, 26, 32, 27, 38, 82, 208>>) @@
   (<<134, 134, 134, 134, 203>> :> <<224, 26, 235, 230, 130, 71, 111, 84, 10, 185, 177, 30, 35, 0, 168, 127, 243, 194, 23, 89, 12, 170, 71, 1, 95, 222, 244, 70, 138, 38, 235, 167>>) @@
   (<<134, 134, 134, 203, 134>> :> <<123, 178, 51, 24, 84, 158, 15, 28, 1, 181, 69, 248, 251, 241, 10, 86, 174, 243, 159, 26, 175, 169, 250, 31, 64, 63, 7, 44, 208, 236, 57, 222>>) @@
   (<<134, 134, 134, 203, 203>> :> <<37, 181, 126, 229, 185, 213, 209, 79, 34, 102, 28, 117, 105, 228, 0, 160, 6, 67, 200, 125, 222, 235, 178, 222, 162, 143, 245, 2, 151, 127, 219, 111>>) @@
   (<<134, 134, 203, 134, 134>> :> <<62, 160, 116, 106, 163, 75, 171, 121, 195, 131, 189, 229, 74, 112, 155, 185, 84, 121, 37, 198, 125, 216, 22, 50, 16, 136, 37, 211, 77, 69, 169, 116>>) @@
   (<<134, 134, 203, 134, 203>> :> <<79, 180, 182, 180, 40, 7, 40, 62, 211, 165, 163, 78, 115, 70, 242, 118, 0, 115, 178, 157, 72, 1, 232, 131, 197, 30, 193, 19, 251, 200, 200, 93>>) @@
   (<<134, 134, 203, 203, 134>> :> <<32, 36, 14, 89, 65, 78, 191, 224, 169, 95, 196, 69, 79, 47, 102, 132, 28, 97, 155, 41, 231, 127, 34, 171, 27, 249, 173, 40, 234, 122, 183, 118>>) @@
   (<<134, 134, 203, 203, 203>> :> <<109, 170, 145, 143, 97, 58, 106, 31, 213, 179, 5, 93, 128, 205, 24, 203, 80, 229, 216, 74, 152, 232, 143, 11, 236, 196, 156, 42, 73, 162, 178, 230>>) @@
   (<<134, 203, 134, 134, 134>> :> <<12, 119, 70, 87, 97, 140, 169, 99, 195, 185, 36, 84, 10, 229, 148, 106, 91, 20, 108, 255, 234, 154, 148, 6, 153, 85, 43, 42, 127, 103, 189, 200>>) @@
   (<<134, 203, 134, 134, 203>> :> <<110, 6, 172, 149, 149, 75, 75, 148, 180, 114, 254, 180, 122, 50, 79, 177, 62, 117, 146, 203, 90, 108, 186, 186, 55, 135, 69, 144, 73, 33, 89, 121>>) @@
   (<<134, 203, 134, 203, 134>> :> <<94, 70, 44, 61, 127, 136, 30, 174, 56, 130, 26, 48, 168, 205, 102, 228, 61, 250, 16, 101, 223, 52, 75, 54, 103, 155, 30, 86, 224, 183, 89, 116>>) @@
   (<<134, 203, 134, 203, 203>> :> <<106, 193, 233, 253, 200, 40, 35, 88, 118, 94, 153, 63, 230, 152, 106, 73, 180, 177, 45, 65, 179, 14, 195, 155, 188, 68, 27, 91, 168, 203, 224, 75>>) @@
   (<<134, 203, 203, 134, 134>> :> <<56, 77, 184, 23, 22, 130, 249, 109, 54, 88, 44, 151, 172, 125, 159, 247, 249, 15, 24, 53, 122, 21, 108, 152, 246, 233, 207, 41, 212, 147, 11, 76>>) @@
   (<<134, 203, 203, 134, 203>> :> <<212, 98, 3, 13, 50, 27, 106, 169, 131, 216, 105, 64, 8, 100, 227, 11, 128, 184, 64, 213, 50, 4, 136, 195, 227, 32, 52, 121, 82, 38, 173, 67>>) @@
   (<<134, 203, 203, 203, 134>> :> <<146, 140, 3, 61, 138, 229, 244, 229, 19, 91, 151, 72, 239, 118, 217, 39, 231, 84, 33, 116, 141, 64, 200, 187, 14, 70, 2, 236, 81, 107, 133, 70>>) @@
   (<<134, 203, 203, 203, 203>> :> <<76, 230, 157, 121, 187, 56, 220, 40, 162, 154, 68, 95, 126, 218, 148, 41, 41, 171, 206, 68, 61, 27, 82, 224, 208, 15, 227, 49, 75, 162, 37, 160>>) @@
   (<<203, 134, 134, 134, 134>> :> <<102, 34, 34, 183, 165, 84, 171, 62, 78, 33, 46, 71, 169, 179, 119, 0, 243, 85, 19, 110, 228, 92, 127, 133, 247, 228, 75, 35, 199, 29, 238, 234>>) @@
   (<<203, 134, 134, 134, 203>> :> <<174, 59, 35, 94, 106, 81, 47, 129, 88, 53, 85, 209, 74, 17, 134, 131, 218, 51, 134, 203, 156, 96, 25, 205, 154, 195, 40, 202, 39, 164, 122, 51>>) @@
   (<<203, 134, 134, 203, 134>> :> <<126, 43, 150, 101, 89, 137, 135, 176, 224, 102, 27, 62, 232, 8, 51, 26, 236, 239, 195, 248, 182, 155, 103, 162, 198, 40, 77, 124, 32, 194, 105, 206>>) @@
   (<<203, 134, 134, 203, 203>> :> <<26, 7, 130, 83, 216, 176, 129, 56, 202, 171, 151, 231, 92, 101, 3, 203, 72, 209, 228, 243, 74, 184, 151, 19, 122, 133, 158, 255, 54, 161, 90, 152>>) @@
   (<<203, 134, 203, 134, 134>> :> <<1, 113, 207, 54, 218, 197, 186, 106, 95, 64, 57, 119, 123, 194, 128, 241, 69, 198, 238, 206, 182, 234, 196, 59, 231, 87, 83, 60, 160, 116, 170, 175>>) @@
   (<<203, 134, 203, 134, 203>> :> <<4, 182, 53, 174, 247, 251, 21, 210, 213, 178, 195, 170, 109, 19, 38, 190, 4, 10, 227, 255, 255, 129, 138, 100, 95, 237, 177, 125, 156, 188, 131, 232>>) @@
   (<<203, 134, 203, 203, 134>> :> <<163, 133, 91, 89, 138, 150, 92, 28, 65, 246, 135, 71, 126, 253, 96, 57, 144, 114, 0, 16, 165, 217, 137, 1, 233, 171, 94, 14, 230, 151, 151, 75>>) @@
   (<<203, 134, 203, 203, 203>> :> <<194, 158, 195, 70, 38, 132, 123, 15, 14, 159, 166, 105, 222, 109, 56, 108, 152, 163, 208, 65, 238, 166, 219, 217, 64, 93, 244, 241, 179, 246, 70, 179>>) @@
   (<<203, 203, 134, 134, 134>> :> <<57, 166, 70, 58, 253, 245, 28, 99, 228, 5, 141, 114, 37, 105, 162, 74, 195, 31, 41, 114, 100, 199, 188, 12, 199, 229, 184, 171, 55, 234, 106, 77>>) @@
   (<<203, 203, 134, 134, 203>> :> <<23, 29, 141, 200, 57, 20, 229, 157, 133, 83, 196, 94, 93, 29, 22, 165, 49, 11, 209, 35, 198, 26, 197, 65, 207, 120, 203, 42, 91, 12, 242, 152>>) @@
   (<<203, 203, 134, 203, 134>> :> <<202, 198, 212, 184, 100, 135, 47, 244, 148, 68, 20, 204, 5, 111, 106, 98, 158, 77, 23, 67, 72, 84, 45, 100, 188, 208, 61, 147, 0, 120, 193, 104>>) @@
   (<<203, 203, 134, 203, 203>> :> <<235, 101, 32, 154, 196, 188, 102, 122, 241, 79, 137, 105, 132, 39, 3, 180, 241, 118, 73, 71, 10, 185, 144, 161, 30, 47, 0, 174, 14, 201, 81, 121>>) @@
   (<<203, 203, 203, 134, 134>> :> <<3, 138, 1, 114, 231, 144, 21, 235, 37, 227, 175, 101, 239, 177, 117, 165, 6, 122, 117, 143, 218, 36, 41, 80, 92, 21, 52, 220, 61, 52, 149, 20>>) @@
   (<<203, 203, 203, 134, 203>> :> <<248, 139, 17, 58, 110, 79, 60, 120, 184, 238, 246, 226, 254, 70, 78, 11, 0, 29, 236, 106, 93, 166, 208, 137, 144, 110, 86, 209, 159, 235, 140, 53>>) @@
   (<<203, 203, 203, 203, 134>> :> <<111, 8, 52, 249, 94, 211, 171, 7, 144, 4, 155, 95, 58, 237, 239, 18, 6, 165, 106, 49, 137, 56, 112, 2, 119, 221, 37, 95, 139, 218, 75, 97>>) @@
   (<<203, 203, 203, 203, 203>> :> <<48, 125, 78, 241, 88, 45, 236, 179, 78, 35, 235, 213, 199, 183, 12, 164, 42, 89, 158, 114, 68, 16, 171, 110, 184, 180, 3, 173, 245, 77, 158, 221>>)

\* diff.rs: the number of failed strong-hash comparisons allowed per checksum
MAX_CRC_COLLISIONS == 1024

\* the block of the long base: MAX_CRC_COLLISIONS zero bytes, then bytes that
\* add up to 65536, so that the block and its first MAX_CRC_COLLISIONS
\* rotations all have the same checksum
LongBlockRuns ==
    << [unit |-> <<0>>, times |-> MAX_CRC_COLLISIONS],
       [unit |-> <<255>>, times |-> 257],
       [unit |-> <<1>>, times |-> 1] >>

LongBlock == Expand(LongBlockRuns)

\* b with its first j bytes moved to its end
RotateLeft(b, j) == SubSeq(b, j + 1, Len(b)) \o SubSeq(b, 1, j)

\* MD4 digests of LongBlock rotated left by 0 .. MAX_CRC_COLLISIONS bytes
Md4LongDigests == <<
   <<4, 27, 49, 155, 156, 26, 186, 131, 146, 106, 111, 182, 100, 107, 207, 147>>,
   <<195, 171, 2, 32, 255, 212, 58, 115, 242, 103, 159, 164, 136, 18, 140, 161>>,
   <<157, 217, 250, 18, 240, 157, 208, 138, 242, 176, 12, 22, 180, 171, 163, 88>>,
   <<106, 101, 5, 65, 181, 43, 240, 252, 212, 77, 152, 73, 81, 157, 97, 137>>,
   <<162, 244, 166, 74, 110, 195, 143, 171, 147, 152, 196, 35, 96, 62, 199, 160>>,
   <<207, 197, 219, 173, 192, 88, 207, 164, 70, 21, 216, 247, 221, 135, 137, 190>>,
   <<255, 90, 106, 105, 122, 66, 201, 3, 151, 44, 47, 176, 85, 36, 142, 94>>,
   <<152, 171, 190, 54, 252, 84, 179, 73, 51, 92, 56, 216, 246, 117, 102, 53>>,
   <<117, 100, 72, 51, 137, 21, 46, 14, 207, 251, 146, 162, 71, 101, 2, 189>>,
   <<75, 209, 187, 151, 129, 237, 238, 1, 206, 186, 53, 150, 26, 135, 42, 126>>,
   <<136, 165, 247, 37, 216, 102, 249, 139, 111, 81, 44, 104, 66, 174, 249, 94>>,
   <<1, 104, 116, 255, 169, 254, 84, 198, 58, 218, 8, 53, 134, 81, 251, 189>>,
   <<108, 92, 25, 255, 69, 138, 168, 80, 120, 225, 223, 199, 145, 0, 239, 80>>,
   <<214, 182, 82, 133, 124, 63, 225, 64, 193, 171, 219, 170, 75, 178, 178, 90>>,
   <<25, 50, 81, 68, 63, 6, 141, 183, 203, 130, 191, 216, 152, 183, 183, 106>>,
   <<214, 215, 12, 227, 200, 77, 171, 62, 98, 127, 198, 218, 43, 95, 150, 111>>,
   <<212, 193, 203, 70, 215, 241, 31, 54, 202, 34, 53, 131, 33, 246, 234, 241>>,
   <<12, 24, 193, 132, 132, 225, 225, 84, 12, 193, 166, 246, 167, 179, 40, 220>>,
   <<236, 153, 17, 102, 150, 85, 211, 0, 176, 79, 159, 146, 112, 247, 254, 201>>,
   <<171, 184, 111, 94, 96, 33, 153, 213, 210, 93, 145, 184, 39, 66, 64, 135>>,
   <<18, 215, 194, 101, 250, 126, 22, 17, 81, 224, 222, 77, 81, 79, 110, 194>>,
   <<21, 234, 227, 218, 126, 24, 15, 129, 223, 152, 238, 118, 102, 7, 103, 91>>,
   <<194, 212, 221, 166, 39, 154, 186, 226, 194, 27, 194, 101, 249, 106, 245, 179>>,
   <<8, 47, 218, 171, 21, 204, 73, 55, 2, 93, 56, 198, 249, 247, 104, 184>>,
   <<140, 30, 221, 78, 173, 118, 126, 201, 156, 11, 165, 2, 82, 113, 84, 79>>,
   <<74, 177, 135, 147, 85, 164, 84, 10, 126, 245, 177, 255, 66, 225, 237, 32>>,
   <<164, 39, 121, 6, 111, 26, 20, 117, 7, 234, 77, 174, 129, 208, 180, 167>>,
   <<211, 156, 158, 110, 76, 30, 216, 170, 232, 158, 250, 19, 185, 15, 139, 58>>,
   <<164, 217, 102, 190, 17, 30, 56, 133, 106, 82, 154, 186, 38, 19, 156, 188>>,
   <<141, 46, 16, 203, 247, 212, 196, 88, 74, 204, 131, 142, 186, 237, 16, 128>>,
   <<227, 44, 80, 102, 102, 242, 1, 29, 213, 250, 153, 148, 157, 180, 236, 187>>,
   <<67, 146, 37, 191, 15, 203, 189, 9, 221, 203, 40, 151, 79, 110, 131, 33>>,
   <<7, 35, 251, 73, 221, 178, 73, 207, 202, 187, 157, 80, 137, 209, 230, 71>>,
   <<87, 240, 132, 131, 54, 20, 235, 255, 116, 230, 198, 238, 71, 55, 55, 212>>,
   <<49, 93, 97, 109, 38, 128, 186, 229, 191, 233, 29, 230, 157, 233, 204, 211>>,
   <<86, 162, 152, 58, 101, 89, 255, 101, 222, 22, 239, 74, 110, 70, 138, 60>>,
   <<82, 72, 75, 41, 120, 71, 30, 113, 218, 209, 161, 69, 224, 61, 67, 151>>,
   <<63, 68, 62, 5, 135, 127, 211, 6, 69, 101, 247, 118, 198, 188, 30, 77>>,
   <<120, 47, 91, 90, 135, 193, 100, 193, 106, 46, 182, 252, 239, 74, 98, 69>>,
   <<203, 179, 50, 91, 90, 182, 109, 223, 129, 50, 161, 142, 99, 89, 50, 167>>,
   <<162, 201, 224, 199, 138, 91, 76, 173, 15, 8, 236, 241, 163, 122, 114, 111>>,
   <<108, 121, 73, 231, 38, 211, 244, 71, 42, 179, 35, 73, 4, 110, 181, 16>>,
   <<193, 148, 5, 118, 112, 126, 82, 63, 43, 43, 107, 203, 231, 21, 218, 163>>,
   <<130, 170, 51, 36, 92, 33, 226, 57, 71, 239, 190, 217, 126, 71, 251, 169>>,
   <<246, 180, 223, 84, 103, 102, 74, 9, 15, 176, 250, 83, 150, 114, 47, 220>>,
   <<55, 173, 220, 228, 39, 229, 38, 135, 161, 218, 124, 19, 24, 152, 183, 128>>,
   <<85, 98, 188, 42, 28, 160, 94, 162, 144, 53, 140, 92, 220, 84, 250, 60>>,
   <<93, 1, 106, 20, 49, 42, 109, 242, 10, 40, 250, 145, 211, 119, 93, 35>>,
   <<14, 26, 27, 226, 164, 1, 230, 119, 178, 9, 44, 105, 154, 89, 237, 177>>,
   <<99, 112, 65, 142, 116, 154, 225, 214, 27, 227, 201, 71, 165, 210, 88, 71>>,
   <<72, 154, 209, 76, 142, 134, 85, 157, 175, 171, 250, 148, 168, 79, 86, 145>>,
   <<242, 238, 153, 49, 221, 138, 35, 229, 129, 233, 198, 228, 22, 133, 13, 7>>,
   <<51, 129, 55, 190, 65, 221, 234, 165, 128, 195, 167, 23, 101, 225, 180, 152>>,
   <<66, 198, 132, 52, 49, 175, 110, 85, 28, 13, 102, 15, 199, 99, 212, 198>>,
   <<199, 205, 25, 180, 155, 201, 158, 151, 187, 153, 71, 129, 189, 60, 227, 244>>,
   <<110, 54, 249, 189, 171, 171, 18, 57, 24, 134, 181, 187, 181, 36, 122, 136>>,
   <<177, 38, 231, 207, 56, 139, 222, 41, 96, 78, 79, 184, 47, 25, 180, 148>>,
   <<222, 8, 139, 195, 117, 30, 146, 34, 184, 14, 32, 137, 170, 113, 56, 255>>,
   <<164, 140, 196, 37, 229, 198, 102, 122, 192, 119, 19, 99, 131, 98, 156, 23>>,
   <<109, 141, 159, 56, 118, 51, 67, 49, 24, 135, 231, 81, 145, 58, 55, 43>>,
   <<153, 71, 219, 232, 117, 157, 79, 174, 98, 242, 102, 210, 184, 99, 59, 44>>,
   <<228, 164, 184, 76, 123, 249, 148, 92, 167, 216, 42, 92, 107, 175, 5, 123>>,
   <<28, 147, 187, 249, 229, 55, 34, 142, 205, 240, 241, 98, 41, 236, 6, 193>>,
   <<239, 15, 50, 159, 38, 75, 145, 121, 115, 200, 92, 40, 224, 156, 83, 33>>,
   <<137, 93, 215, 136, 63, 184, 37, 180, 115, 98, 109, 6, 238, 242, 206, 27>>,
   <<14, 251, 157, 132, 165, 107, 248, 194, 208, 152, 111, 227, 140, 132, 125, 113>>,
   <<133, 4, 69, 155, 180, 117, 100, 36, 116, 106, 163, 12, 213, 218, 181, 130>>,
   <<36, 38, 200, 202, 164, 45, 196, 70, 50, 143, 170, 23, 218, 201, 248, 184>>,
   <<59, 174, 95, 235, 17, 120, 30, 215, 245, 4, 191, 228, 3, 235, 223, 35>>,
   <<194, 33, 69, 129, 224, 187, 174, 146, 16, 196, 133, 174, 85, 112, 10, 26>>,
   <<96, 38, 218, 29, 206, 87, 151, 36, 84, 76, 74, 113, 192, 122, 252, 119>>,
   <<84, 30, 106, 241, 89, 230, 124, 11, 235, 60, 178, 220, 93, 120, 52, 189>>,
   <<178, 19, 184, 38, 0, 66, 115, 245, 4, 223, 222, 96, 5, 2, 164, 230>>,
   <<91, 19, 97, 26, 167, 85, 142, 155, 202, 129, 26, 94, 34, 141, 95, 175>>,
   <<177, 179, 231, 159, 193, 64, 154, 184, 21, 29, 112, 73, 18, 241, 93, 41>>,
   <<43, 115, 77, 122, 99, 169, 166, 194, 134, 188, 44, 240, 236, 32, 91, 115>>,
   <<65, 237, 50, 100, 35, 123, 152, 31, 143, 194, 167, 47, 36, 245, 234, 235>>,
   <<69, 233, 238, 79, 148, 190, 150, 69, 251, 164, 60, 180, 84, 246, 219, 212>>,
   <<193, 50, 249, 109, 145, 104, 68, 233, 170, 26, 218, 98, 46, 228, 254, 174>>,
   <<150, 92, 50, 136, 239, 239, 227, 229, 110, 230, 107, 237, 30, 211, 81, 118>>,
   <<141, 140, 93, 237, 25, 175, 199, 62, 18, 156, 91, 234, 158, 242, 173, 92>>,
   <<196, 118, 196, 239, 157, 128, 48, 125, 124, 240, 188, 249, 27, 140, 85, 21>>,
   <<187, 192, 186, 20, 145, 22, 189, 71, 128, 165, 77, 147, 253, 182, 222, 5>>,
   <<205, 144, 153, 174, 200, 27, 231, 57, 247, 53, 143, 115, 231, 223, 100, 26>>,
   <<69, 98, 104, 162, 219, 253, 232, 162, 224, 31, 137, 28, 91, 186, 57, 7>>,
   <<76, 33, 153, 194, 15, 27, 30, 215, 109, 7, 0, 198, 82, 215, 192, 32>>,
   <<236, 22, 115, 189, 216, 172, 137, 149, 35, 222, 79, 247, 160, 22, 245, 72>>,
   <<91, 81, 120, 105, 78, 103, 105, 204, 165, 190, 118, 198, 65, 223, 58, 21>>,
   <<207, 207, 8, 13, 16, 155, 99, 72, 80, 180, 245, 85, 67, 251, 114, 63>>,
   <<73, 161, 18, 82, 128, 23, 54, 36, 32, 110, 216, 167, 254, 238, 194, 191>>,
   <<30, 76, 150, 204, 150, 204, 138, 16, 242, 48, 98, 65, 234, 191, 160, 67>>,
   <<141, 28, 192, 81, 31, 66, 224, 236, 82, 57, 98, 123, 58, 165, 11, 48>>,
   <<21, 189, 127, 251, 9, 171, 68, 133, 200, 223, 157, 90, 31, 97, 29, 67>>,
   <<156, 218, 166, 234, 251, 10, 172, 40, 216, 166, 186, 87, 204, 64, 243, 18>>,
   <<224, 86, 185, 206, 248, 144, 59, 87, 67, 120, 85, 193, 249, 121, 63, 0>>,
   <<10, 17, 53, 71, 201, 10, 45, 233, 163, 98, 231, 239, 196, 181, 128, 21>>,
   <<60, 248, 89, 190, 14, 23, 95, 107, 4, 104, 48, 169, 76, 172, 57, 0>>,
   <<221, 75, 223, 18, 18, 159, 109, 195, 106, 177, 238, 212, 145, 33, 183, 152>>,
   <<117, 129, 0, 135, 118, 187, 104, 173, 77, 38, 42, 80, 53, 151, 155, 134>>,
   <<169, 14, 118, 63, 62, 214, 132, 150, 17, 216, 1, 112, 50, 240, 125, 247>>,
   <<241, 35, 76, 61, 119, 238, 122, 248, 188, 130, 193, 174, 138, 252, 89, 183>>,
   <<135, 173, 162, 45, 108, 154, 159, 251, 148, 193, 238, 24, 97, 221, 35, 79>>,
   <<135, 162, 236, 133, 28, 75, 186, 18, 90, 231, 7, 201, 197, 120, 12, 169>>,
   <<215, 3, 121, 173, 23, 218, 196, 87, 158, 55, 55, 27, 146, 230, 163, 129>>,
   <<60, 55, 0, 137, 253, 232, 55, 123, 63, 182, 62, 229, 20, 240, 63, 33>>,
   <<10, 239, 154, 76, 3, 45, 210, 37, 76, 162, 115, 56, 176, 115, 208, 255>>,
   <<207, 87, 227, 229, 67, 129, 189, 77, 87, 80, 245, 134, 176, 181, 87, 63>>,
   <<148, 255, 31, 145, 16, 38, 225, 32, 22, 249, 101, 123, 16, 18, 31, 168>>,
   <<137, 50, 185, 49, 29, 79, 93, 129, 209, 70, 82, 255, 254, 217, 171, 102>>,
   <<181, 106, 253, 190, 158, 178, 4, 247, 187, 168, 251, 239, 215, 216, 17, 48>>,
   <<240, 215, 202, 21, 41, 84, 187, 7, 135, 38, 191, 106, 133, 94, 144, 115>>,
   <<235, 198, 37, 7, 164, 172, 218, 149, 133, 145, 78, 191, 134, 65, 113, 197>>,
   <<193, 44, 85, 193, 91, 10, 84, 43, 51, 140, 172, 36, 63, 243, 63, 28>>,
   <<202, 181, 32, 195, 131, 126, 38, 156, 131, 108, 216, 8, 129, 211, 60, 94>>,
   <<206, 22, 237, 124, 2, 48, 178, 101, 117, 78, 159, 201, 163, 209, 148, 130>>,
   <<12, 136, 33, 167, 27, 206, 127, 211, 32, 162, 175, 90, 178, 183, 179, 219>>,
   <<185, 115, 213, 196, 201, 190, 64, 58, 130, 183, 175, 88, 213, 183, 229, 164>>,
   <<94, 190, 47, 178, 233, 205, 249, 165, 110, 224, 42, 54, 133, 41, 178, 91>>,
   <<223, 65, 48, 33, 18, 198, 189, 182, 209, 142, 97, 247, 100, 253, 113, 139>>,
   <<216, 149, 143, 136, 105, 255, 84, 68, 242, 25, 247, 42, 240, 26, 146, 218>>,
   <<209, 126, 92, 184, 72, 95, 53, 145, 1, 16, 226, 63, 131, 215, 186, 237>>,
   <<53, 191, 43, 152, 78, 31, 226, 41, 175, 99, 154, 89, 45, 95, 250, 211>>,
   <<64, 106, 111, 29, 91, 137, 152, 49, 37, 130, 173, 72, 230, 202, 73, 104>>,
   <<88, 163, 83, 160, 135, 62, 146, 165, 255, 214, 193, 64, 73, 24, 122, 195>>,
   <<30, 88, 146, 202, 95, 130, 55, 15, 170, 122, 121, 212, 177, 218, 168, 115>>,
   <<75, 222, 204, 133, 121, 26, 164, 147, 12, 50, 19, 135, 108, 99, 168, 134>>,
   <<142, 11, 186, 176, 28, 127, 244, 134, 169, 252, 42, 241, 139, 144, 147, 35>>,
   <<21, 61, 242, 122, 164, 184, 168, 156, 60, 190, 112, 91, 109, 160, 35, 176>>,
   <<129, 228, 216, 236, 237, 81, 2, 161, 78, 249, 69, 139, 104, 159, 102, 41>>,
   <<220, 17, 142, 172, 71, 33, 164, 116, 18, 70, 72, 171, 30, 244, 17, 55>>,
   <<32, 198, 14, 206, 67, 60, 99, 238, 242, 246, 148, 64, 153, 227, 103, 83>>,
   <<249, 149, 255, 132, 137, 174, 13, 247, 191, 107, 207, 87, 78, 92, 164, 170>>,
   <<116, 3, 122, 105, 218, 52, 97, 239, 140, 75, 78, 137, 57, 18, 214, 239>>,
   <<122, 80, 120, 195, 254, 10, 193, 170, 43, 130, 143, 181, 232, 82, 209, 147>>,
   <<45, 118, 94, 160, 74, 203, 77, 0, 166, 198, 250, 120, 88, 242, 119, 162>>,
   <<200, 227, 97, 146, 7, 9, 32, 123, 56, 34, 251, 248, 57, 145, 246, 123>>,
   <<176, 169, 64, 1, 92, 166, 221, 236, 170, 57, 33, 49, 80, 108, 103, 123>>,
   <<98, 172, 224, 106, 116, 180, 143, 103, 191, 236, 171, 84, 73, 31, 10, 64>>,
   <<30, 244, 185, 233, 60, 187, 79, 154, 222, 122, 125, 93, 16, 255, 73, 36>>,
   <<242, 170, 57, 126, 134, 52, 210, 32, 12, 169, 122, 55, 77, 34, 137, 221>>,
   <<18, 206, 13, 245, 47, 178, 195, 222, 175, 196, 215, 170, 14, 234, 219, 233>>,
   <<168, 144, 178, 179, 168, 224, 134, 232, 221, 141, 249, 27, 214, 249, 123, 210>>,
   <<98, 162, 14, 90, 197, 159, 163, 249, 215, 72, 154, 223, 9, 217, 175, 252>>,
   <<45, 67, 171, 101, 192, 106, 114, 37, 40, 11, 0, 41, 76, 150, 231, 35>>,
   <<46, 63, 229, 37, 25, 192, 100, 34, 208, 135, 130, 109, 254, 10, 108, 19>>,
   <<30, 213, 141, 204, 231, 177, 200, 224, 127, 76, 208, 48, 220, 144, 166, 92>>,
   <<187, 123, 128, 9, 233, 210, 72, 175, 155, 10, 125, 136, 165, 102, 126, 8>>,
   <<124, 10, 54, 110, 121, 46, 87, 161, 217, 164, 92, 197, 28, 222, 222, 145>>,
   <<124, 33, 59, 228, 189, 112, 90, 184, 35, 186, 213, 16, 60, 73, 176, 145>>,
   <<111, 41, 145, 98, 144, 61, 196, 127, 24, 207, 43, 209, 48, 242, 119, 119>>,
   <<22, 92, 110, 9, 136, 218, 240, 115, 110, 28, 111, 156, 235, 109, 238, 170>>,
   <<103, 126, 249, 62, 11, 212, 172, 202, 85, 70, 141, 209, 236, 62, 10, 67>>,
   <<43, 9, 161, 253, 56, 182, 25, 66, 125, 93, 83, 44, 65, 23, 61, 210>>,
   <<223, 224, 70, 145, 55, 74, 0, 68, 204, 180, 201, 111, 115, 3, 144, 136>>,
   <<27, 183, 172, 169, 5, 80, 154, 209, 131, 212, 61, 124, 20, 209, 237, 237>>,
   <<162, 147, 145, 213, 60, 36, 133, 20, 164, 145, 40, 52, 93, 167, 151, 30>>,
   <<92, 35, 243, 238, 132, 76, 161, 18, 9, 130, 55, 203, 106, 59, 114, 139>>,
   <<50, 203, 36, 167, 73, 58, 186, 56, 99, 171, 132, 241, 198, 231, 245, 26>>,
   <<252, 184, 58, 126, 125, 167, 220, 164, 240, 232, 173, 82, 70, 115, 187, 162>>,
   <<30, 144, 58, 165, 212, 253, 71, 12, 5, 252, 54, 167, 183, 227, 188, 160>>,
   <<2, 250, 134, 222, 113, 48, 113, 185, 249, 86, 217, 169, 105, 53, 144, 195>>,
   <<152, 231, 240, 211, 167, 45, 184, 240, 14, 21, 96, 84, 205, 29, 35, 3>>,
   <<105, 67, 160, 134, 11, 36, 61, 179, 166, 51, 195, 22, 21, 255, 36, 69>>,
   <<107, 87, 167, 202, 89, 20, 241, 106, 124, 35, 16, 187, 129, 135, 228, 20>>,
   <<84, 129, 161, 171, 67, 98, 142, 209, 156, 133, 204, 157, 174, 13, 166, 245>>,
   <<228, 99, 205, 71, 55, 128, 243, 180, 166, 25, 186, 0, 208, 181, 54, 131>>,
   <<175, 117, 143, 232, 132, 142, 87, 94, 94, 15, 212, 246, 115, 65, 78, 106>>,
   <<128, 116, 230, 35, 60, 36, 162, 239, 76, 62, 41, 165, 148, 31, 202, 30>>,
   <<18, 5, 148, 209, 188, 29, 221, 46, 3, 227, 170, 215, 215, 32, 225, 37>>,
   <<95, 214, 16, 171, 222, 13, 13, 195, 96, 211, 54, 154, 252, 238, 224, 54>>,
   <<38, 250, 60, 4, 249, 11, 204, 220, 15, 217, 245, 16, 45, 153, 246, 172>>,
   <<80, 103, 1, 189, 90, 56, 162, 42, 79, 195, 249, 183, 47, 208, 55, 240>>,
   <<114, 46, 85, 230, 123, 238, 76, 74, 96, 103, 100, 48, 130, 132, 233, 248>>,
   <<96, 253, 206, 15, 24, 52, 38, 30, 9, 93, 192, 147, 99, 197, 38, 26>>,
   <<33, 143, 66, 21, 94, 167, 165, 96, 143, 38, 6, 46, 61, 163, 31, 129>>,
   <<19, 4, 122, 246, 31, 140, 113, 137, 125, 189, 149, 125, 30, 161, 141, 180>>,
   <<119, 239, 207, 81, 122, 129, 123, 58, 124, 28, 254, 80, 45, 243, 67, 102>>,
   <<119, 119, 157, 61, 63, 11, 34, 115, 38, 217, 119, 93, 143, 112, 32, 176>>,
   <<117, 156, 187, 159, 227, 97, 62, 85, 74, 107, 37, 226, 22, 169, 153, 61>>,
   <<17, 131, 247, 3, 122, 241, 221, 35, 22, 135, 195, 38, 151, 127, 38, 255>>,
   <<174, 186, 236, 95, 68, 156, 229, 31, 39, 216, 67, 21, 37, 171, 133, 78>>,
   <<195, 28, 197, 132, 228, 252, 22, 19, 241, 30, 92, 226, 215, 18, 194, 0>>,
   <<22, 10, 254, 28, 234, 229, 227, 219, 244, 64, 185, 103, 105, 186, 26, 53>>,
   <<113, 240, 63, 51, 96, 232, 209, 128, 10, 55, 159, 12, 255, 170, 23, 231>>,
   <<2, 238, 91, 200, 182, 46, 252, 230, 167, 93, 5, 140, 133, 167, 217, 26>>,
   <<86, 150, 77, 114, 121, 154, 70, 135, 114, 63, 36, 245, 101, 155, 205, 150>>,
   <<142, 96, 187, 207, 33, 137, 220, 56, 157, 169, 69, 65, 83, 206, 44, 221>>,
   <<34, 172, 13, 87, 100, 124, 184, 73, 199, 9, 131, 136, 226, 225, 229, 75>>,
   <<159, 189, 159, 234, 52, 81, 195, 189, 26, 66, 7, 82, 221, 55, 163, 149>>,
   <<113, 144, 52, 53, 149, 7, 200, 1, 229, 200, 53, 222, 178, 47, 25, 119>>,
   <<202, 0, 194, 67, 253, 160, 213, 188, 250, 212, 65, 172, 108, 242, 216, 122>>,
   <<116, 43, 210, 42, 181, 202, 136, 54, 12, 83, 7, 204, 164, 3, 107, 188>>,
   <<12, 173, 220, 108, 198, 17, 245, 208, 120, 0, 111, 219, 97, 133, 247, 107>>,
   <<209, 57, 254, 79, 251, 32, 175, 195, 196, 162, 159, 173, 89, 240, 171, 187>>,
   <<124, 91, 70, 227, 17, 87, 60, 65, 185, 41, 24, 180, 187, 140, 100, 251>>,
   <<240, 107, 30, 74, 226, 120, 225, 94, 217, 2, 0, 191, 60, 149, 241, 54>>,
   <<64, 59, 197, 181, 206, 191, 95, 151, 144, 56, 91, 59, 178, 230, 63, 110>>,
   <<77, 227, 224, 160, 210, 141, 170, 241, 197, 57, 196, 81, 38, 202, 152, 67>>,
   <<247, 58, 46, 73, 30, 233, 216, 17, 110, 220, 99, 216, 184, 46, 246, 184>>,
   <<244, 199, 143, 203, 20, 184, 39, 164, 215, 181, 180, 202, 130, 103, 243, 115>>,
   <<215, 112, 201, 229, 28, 130, 119, 56, 111, 149, 241, 29, 160, 168, 44, 79>>,
   <<195, 65, 148, 79, 66, 89, 13, 27, 248, 179, 240, 99, 51, 92, 164, 196>>,
   <<150, 136, 147, 74, 193, 128, 0, 82, 101, 162, 17, 208, 28, 7, 12, 1>>,
   <<201, 51, 71, 40, 16, 128, 82, 75, 114, 28, 137, 67, 231, 43, 11, 19>>,
   <<30, 129, 32, 185, 107, 219, 173, 220, 105, 91, 94, 28, 6, 69, 33, 90>>,
   <<21, 129, 59, 201, 195, 129, 51, 53, 215, 225, 82, 110, 50, 227, 232, 11>>,
   <<188, 239, 213, 135, 246, 202, 90, 215, 191, 41, 179, 63, 102, 116, 238, 219>>,
   <<50, 56, 129, 90, 171, 82, 68, 186, 59, 49, 175, 206, 232, 139, 52, 27>>,
   <<49, 49, 15, 146, 134, 133, 117, 228, 49, 241, 121, 20, 73, 3, 174, 54>>,
   <<52, 78, 126, 150, 105, 41, 148, 100, 132, 219, 83, 173, 199, 164, 44, 219>>,
   <<19, 92, 40, 124, 70, 237, 57, 138, 251, 191, 155, 95, 169, 104, 15, 66>>,
   <<195, 175, 3, 162, 255, 198, 69, 223, 81, 25, 248, 20, 216, 150, 115, 209>>,
   <<115, 18, 133, 163, 105, 232, 46, 78, 12, 116, 99, 110, 120, 241, 86, 146>>,
   <<113, 53, 90, 41, 154, 195, 21, 14, 205, 173, 168, 39, 201, 101, 239, 232>>,
   <<32, 252, 209, 28, 112, 93, 202, 145, 38, 120, 162, 233, 20, 235, 67, 53>>,
   <<128, 221, 206, 154, 252, 83, 4, 87, 225, 149, 183, 25, 187, 27, 210, 45>>,
   <<114, 165, 133, 154, 164, 161, 62, 73, 10, 42, 56, 166, 74, 41, 123, 59>>,
   <<12, 31, 143, 238, 145, 47, 156, 238, 48, 105, 194, 82, 221, 157, 17, 57>>,
   <<81, 206, 36, 243, 12, 172, 71, 223, 96, 88, 25, 90, 250, 163, 236, 61>>,
   <<204, 129, 254, 114, 252, 111, 103, 68, 218, 187, 240, 92, 136, 199, 215, 23>>,
   <<188, 240, 112, 157, 133, 100, 3, 116, 82, 167, 241, 33, 139, 21, 164, 194>>,
   <<88, 79, 41, 207, 108, 41, 118, 242, 163, 8, 130, 69, 108, 144, 98, 29>>,
   <<77, 117, 246, 101, 210, 101, 30, 89, 70, 176, 101, 186, 106, 138, 56, 163>>,
   <<167, 158, 16, 137, 11, 222, 31, 152, 201, 144, 234, 130, 245, 92, 90, 109>>,
   <<168, 223, 241, 242, 72, 96, 96, 112, 137, 102, 88, 204, 194, 5, 38, 105>>,
   <<45, 74, 238, 215, 111, 138, 173, 179, 126, 202, 138, 131, 112, 23, 162, 32>>,
   <<175, 54, 235, 15, 231, 171, 107, 105, 224, 175, 236, 174, 116, 175, 88, 152>>,
   <<205, 55, 209, 13, 110, 1, 143, 0, 76, 96, 19, 205, 56, 114, 213, 134>>,
   <<232, 23, 120, 215, 218, 125, 37, 27, 167, 224, 185, 141, 20, 99, 226, 58>>,
   <<66, 95, 17, 194, 39, 2, 217, 136, 14, 142, 184, 208, 120, 30, 45, 11>>,
   <<205, 147, 81, 45, 64, 242, 40, 71, 159, 67, 237, 133, 133, 96, 71, 213>>,
   <<158, 250, 21, 192, 115, 106, 153, 124, 93, 23, 179, 149, 31, 36, 139, 228>>,
   <<208, 177, 65, 187, 93, 102, 90, 242, 8, 18, 112, 130, 237, 28, 195, 105>>,
   <<28, 82, 169, 42, 183, 7, 124, 171, 156, 148, 145, 141, 88, 79, 51, 155>>,
   <<20, 116, 232, 250, 47, 12, 113, 104, 117, 152, 33, 253, 106, 231, 245, 183>>,
   <<158, 5, 35, 178, 76, 92, 85, 79, 87, 166, 222, 176, 0, 156, 107, 80>>,
   <<42, 105, 188, 14, 101, 251, 194, 156, 173, 126, 207, 0, 174, 195, 27, 177>>,
   <<88, 54, 106, 181, 96, 73, 11, 60, 83, 192, 243, 164, 128, 115, 0, 176>>,
   <<139, 185, 180, 241, 126, 106, 80, 169, 66, 219, 206, 81, 191, 255, 220, 187>>,
   <<209, 132, 142, 247, 142, 5, 82, 99, 230, 97, 236, 64, 172, 18, 186, 35>>,
   <<240, 73, 154, 75, 215, 12, 70, 90, 203, 55, 74, 71, 107, 189, 189, 32>>,
   <<62, 159, 46, 107, 143, 191, 39, 131, 194, 34, 94, 164, 236, 221, 155, 161>>,
   <<108, 134, 25, 225, 46, 126, 190, 235, 2, 36, 161, 64, 120, 117, 59, 176>>,
   <<84, 168, 221, 19, 201, 192, 174, 207, 93, 141, 61, 131, 3, 51, 107, 128>>,
   <<2, 89, 172, 197, 72, 242, 208, 12, 116, 244, 176, 219, 20, 189, 220, 115>>,
   <<85, 180, 141, 84, 227, 45, 134, 116, 60, 130, 40, 55, 250, 148, 117, 115>>,
   <<240, 96, 102, 205, 51, 238, 204, 225, 76, 56, 227, 119, 254, 18, 167, 187>>,
   <<8, 49, 219, 142, 148, 147, 42, 162, 196, 63, 17, 245, 138, 82, 190, 14>>,
   <<176, 14, 232, 120, 230, 29, 173, 243, 140, 110, 85, 194, 36, 96, 201, 246>>,
   <<170, 62, 234, 173, 168, 14, 68, 14, 119, 104, 130, 148, 239, 194, 38, 232>>,
   <<57, 39, 186, 43, 196, 116, 248, 167, 75, 192, 58, 34, 249, 109, 155, 132>>,
   <<252, 7, 52, 20, 255, 253, 19, 118, 176, 101, 230, 142, 120, 177, 157, 229>>,
   <<213, 13, 30, 149, 147, 231, 225, 102, 6, 48, 45, 109, 156, 61, 27, 170>>,
   <<57, 4, 1, 140, 204, 175, 13, 3, 222, 206, 155, 249, 104, 140, 42, 177>>,
   <<38, 122, 205, 234, 158, 218, 45, 165, 115, 254, 101, 159, 33, 128, 83, 112>>,
   <<85, 182, 215, 13, 133, 54, 32, 75, 33, 251, 142, 45, 85, 80, 50, 59>>,
   <<41, 120, 122, 49, 209, 154, 210, 171, 42, 234, 31, 179, 61, 36, 29, 222>>,
   <<62, 183, 219, 241, 11, 213, 174, 231, 136, 33, 188, 172, 79, 199, 177, 53>>,
   <<23, 86, 230, 3, 207, 184, 237, 191, 36, 242, 40, 21, 137, 0, 57, 170>>,
   <<90, 181, 198, 157, 136, 157, 191, 96, 40, 58, 22, 165, 57, 138, 114, 166>>,
   <<61, 70, 156, 11, 179, 5, 154, 227, 7, 2, 57, 184, 29, 81, 255, 33>>,
   <<246, 59, 62, 168, 14, 119, 146, 22, 153, 209, 66, 30, 130, 176, 125, 172>>,
   <<4, 102, 169, 74, 122, 104, 204, 221, 151, 165, 154, 249, 114, 41, 46, 123>>,
   <<201, 13, 121, 235, 89, 184, 145, 144, 204, 247, 23, 162, 99, 27, 79, 156>>,
   <<26, 140, 156, 47, 181, 183, 244, 112, 161, 0, 123, 201, 239, 156, 222, 35>>,
   <<165, 7, 99, 58, 250, 139, 162, 39, 98, 23, 158, 38, 192, 137, 210, 30>>,
   <<3, 33, 180, 217, 154, 164, 152, 202, 29, 208, 137, 98, 169, 183, 123, 40>>,
   <<45, 109, 28, 43, 168, 52, 232, 58, 160, 183, 71, 62, 178, 74, 66, 49>>,
   <<128, 209, 252, 167, 90, 47, 231, 68, 225, 148, 115, 33, 17, 169, 41, 193>>,
   <<37, 182, 173, 119, 166, 92, 170, 92, 117, 53, 6, 210, 99, 43, 110, 12>>,
   <<151, 196, 128, 194, 174, 196, 156, 164, 233, 69, 210, 243, 136, 206, 216, 31>>,
   <<101, 91, 248, 101, 238, 94, 137, 165, 172, 182, 203, 118, 225, 71, 139, 157>>,
   <<242, 150, 22, 155, 158, 201, 113, 218, 131, 141, 4, 185, 1, 215, 155, 107>>,
   <<191, 215, 182, 31, 227, 237, 153, 32, 43, 102, 116, 81, 220, 82, 209, 223>>,
   <<98, 193, 41, 83, 231, 244, 80, 174, 174, 141, 65, 132, 9, 29, 30, 15>>,
   <<83, 153, 245, 54, 186, 52, 74, 221, 172, 219, 115, 152, 168, 39, 38, 109>>,
   <<148, 161, 220, 158, 44, 141, 103, 200, 62, 196, 142, 236, 172, 169, 35, 226>>,
   <<208, 221, 179, 91, 236, 16, 99, 58, 206, 33, 193, 10, 100, 119, 5, 146>>,
   <<2, 74, 76, 29, 226, 87, 14, 28, 105, 15, 143, 72, 156, 88, 4, 225>>,
   <<153, 249, 34, 96, 110, 125, 6, 255, 225, 230, 65, 103, 240, 48, 230, 59>>,
   <<4, 94, 113, 160, 194, 120, 228, 26, 149, 160, 37, 182, 178, 105, 219, 31>>,
   <<135, 87, 229, 135, 223, 123, 95, 211, 138, 58, 1, 194, 55, 95, 107, 107>>,
   <<206, 173, 39, 118, 225, 104, 234, 135, 255, 176, 159, 155, 59, 65, 237, 195>>,
   <<233, 115, 233, 194, 122, 193, 76, 39, 116, 225, 114, 227, 40, 95, 131, 64>>,
   <<189, 23, 128, 236, 220, 49, 169, 225, 94, 79, 176, 59, 166, 210, 250, 109>>,
   <<184, 92, 233, 239, 154, 214, 51, 89, 34, 234, 47, 221, 238, 55, 189, 14>>,
   <<106, 32, 73, 15, 202, 94, 24, 169, 212, 151, 237, 124, 233, 24, 81, 192>>,
   <<175, 212, 35, 136, 78, 210, 223, 49, 121, 237, 100, 151, 56, 199, 218, 47>>,
   <<92, 101, 137, 6, 236, 33, 27, 184, 5, 13, 183, 86, 132, 185, 27, 122>>,
   <<242, 214, 21, 232, 30, 171, 135, 75, 94, 190, 144, 122, 182, 55, 164, 18>>,
   <<103, 194, 193, 20, 182, 150, 220, 121, 123, 182, 124, 29, 237, 60, 66, 124>>,
   <<155, 196, 10, 89, 124, 160, 49, 76, 151, 122, 175, 93, 150, 102, 251, 204>>,
   <<106, 105, 243, 199, 223, 122, 90, 74, 104, 167, 5, 171, 224, 184, 251, 148>>,
   <<5, 51, 172, 113, 191, 197, 90, 105, 244, 97, 224, 144, 145, 126, 88, 3>>,
   <<18, 35, 234, 43, 226, 4, 138, 217, 229, 175, 224, 101, 182, 144, 228, 116>>,
   <<67, 50, 18, 74, 124, 91, 215, 192, 77, 8, 209, 76, 230, 87, 191, 36>>,
   <<116, 242, 206, 28, 103, 73, 21, 197, 89, 197, 75, 183, 218, 173, 204, 188>>,
   <<90, 216, 104, 245, 134, 25, 40, 93, 2, 47, 67, 226, 97, 42, 176, 36>>,
   <<135, 96, 220, 140, 101, 143, 176, 138, 46, 101, 228, 251, 22, 191, 55, 9>>,
   <<106, 134, 134, 12, 141, 127, 2, 166, 211, 60, 12, 144, 15, 223, 198, 138>>,
   <<58, 48, 233, 10, 203, 190, 118, 134, 92, 93, 78, 134, 248, 109, 191, 17>>,
   <<113, 36, 199, 20, 105, 74, 207, 109, 201, 218, 218, 154, 217, 126, 96, 227>>,
   <<225, 50, 8, 29, 35, 27, 220, 215, 8, 2, 103, 47, 47, 110, 242, 148>>,
   <<182, 53, 229, 218, 5, 188, 94, 78, 232, 211, 201, 96, 14, 54, 197, 177>>,
   <<229, 143, 148, 142, 50, 77, 100, 119, 91, 41, 174, 254, 210, 193, 74, 140>>,
   <<43, 98, 70, 87, 28, 107, 117, 75, 173, 34, 0, 234, 119, 228, 179, 255>>,
   <<161, 222, 63, 36, 98, 138, 70, 6, 5, 9, 198, 214, 174, 235, 0, 147>>,
   <<16, 146, 55, 230, 254, 146, 133, 93, 227, 142, 230, 165, 46, 83, 31, 63>>,
   <<40, 104, 130, 80, 175, 82, 195, 202, 212, 135, 181, 229, 232, 206, 157, 128>>,
   <<14, 137, 139, 28, 255, 30, 194, 30, 183, 4, 164, 18, 200, 10, 57, 5>>,
   <<147, 138, 240, 112, 180, 75, 128, 128, 182, 167, 190, 219, 2, 26, 91, 203>>,
   <<131, 251, 68, 121, 118, 16, 169, 117, 71, 101, 154, 107, 117, 22, 231, 54>>,
   <<71, 162, 247, 136, 76, 144, 0, 120, 141, 235, 138, 98, 175, 180, 225, 250>>,
   <<238, 84, 37, 186, 140, 254, 109, 92, 29, 88, 33, 145, 81, 237, 207, 161>>,
   <<49, 109, 138, 57, 231, 65, 202, 223, 65, 147, 149, 49, 157, 213, 57, 163>>,
   <<115, 81, 234, 181, 157, 189, 54, 151, 39, 134, 29, 149, 143, 239, 223, 4>>,
   <<63, 83, 249, 21, 177, 235, 73, 32, 230, 19, 204, 89, 6, 202, 59, 190>>,
   <<64, 16, 2, 235, 40, 204, 245, 95, 210, 45, 171, 237, 134, 114, 13, 105>>,
   <<252, 43, 204, 104, 110, 149, 36, 144, 145, 224, 199, 138, 193, 45, 153, 186>>,
   <<91, 61, 121, 81, 48, 88, 44, 189, 147, 33, 137, 108, 90, 127, 202, 105>>,
   <<207, 176, 134, 244, 156, 229, 49, 217, 250, 179, 149, 136, 211, 61, 179, 142>>,
   <<127, 156, 198, 0, 140, 199, 90, 175, 132, 163, 84, 88, 212, 40, 138, 25>>,
   <<45, 43, 160, 112, 26, 209, 135, 218, 70, 196, 254, 209, 140, 164, 165, 200>>,
   <<81, 79, 145, 3, 108, 196, 202, 12, 225, 230, 153, 206, 153, 32, 29, 188>>,
   <<227, 105, 198, 75, 87, 213, 18, 121, 240, 32, 206, 151, 242, 76, 106, 195>>,
   <<110, 123, 198, 8, 182, 49, 172, 58, 103, 197, 42, 171, 100, 164, 148, 204>>,
   <<152, 189, 90, 69, 57, 57, 83, 135, 235, 116, 250, 153, 99, 113, 76, 169>>,
   <<205, 2, 34, 191, 14, 218, 176, 123, 32, 166, 12, 54, 253, 38, 77, 200>>,
   <<64, 77, 89, 225, 69, 123, 8, 204, 142, 70, 128, 41, 236, 123, 233, 190>>,
   <<198, 108, 255, 0, 126, 220, 26, 130, 101, 233, 216, 103, 0, 188, 104, 216>>,
   <<129, 67, 55, 156, 102, 130, 78, 244, 29, 11, 206, 30, 82, 187, 139, 64>>,
   <<202, 36, 58, 74, 126, 236, 114, 49, 122, 175, 63, 189, 234, 90, 60, 138>>,
   <<239, 179, 158, 192, 45, 146, 24, 212, 174, 44, 148, 174, 230, 189, 64, 96>>,
   <<226, 16, 247, 163, 226, 12, 66, 231, 12, 103, 248, 105, 175, 123, 24, 74>>,
   <<137, 224, 129, 81, 115, 113, 153, 166, 113, 211, 52, 46, 130, 188, 80, 205>>,
   <<233, 206, 78, 68, 130, 43, 160, 238, 238, 244, 240, 220, 164, 203, 220, 26>>,
   <<3, 178, 88, 219, 149, 84, 240, 8, 85, 190, 249, 239, 62, 146, 222, 61>>,
   <<58, 83, 219, 61, 71, 101, 25, 63, 52, 107, 215, 51, 163, 230, 141, 32>>,
   <<45, 145, 97, 225, 106, 77, 70, 244, 199, 51, 60, 117, 36, 160, 0, 13>>,
   <<1, 147, 94, 142, 129, 149, 38, 4, 14, 237, 88, 65, 121, 188, 203, 182>>,
   <<17, 68, 143, 105, 9, 105, 29, 186, 254, 80, 64, 128, 74, 142, 178, 156>>,
   <<149, 57, 136, 61, 191, 195, 182, 148, 201, 241, 187, 152, 3, 50, 14, 19>>,
   <<30, 164, 217, 245, 153, 50, 209, 73, 195, 214, 115, 196, 62, 181, 14, 121>>,
   <<198, 184, 194, 175, 96, 139, 229, 190, 214, 140, 211, 66, 125, 104, 126, 165>>,
   <<146, 155, 142, 9, 170, 202, 2, 230, 12, 188, 234, 68, 192, 180, 60, 233>>,
   <<218, 41, 63, 8, 80, 252, 84, 213, 219, 67, 46, 48, 125, 157, 100, 233>>,
   <<142, 88, 153, 178, 114, 224, 107, 96, 214, 199, 209, 87, 120, 102, 75, 236>>,
   <<82, 211, 40, 83, 94, 148, 124, 74, 71, 27, 247, 169, 131, 172, 144, 112>>,
   <<154, 77, 158, 204, 110, 194, 98, 145, 117, 65, 160, 95, 103, 154, 0, 252>>,
   <<162, 246, 254, 12, 246, 248, 226, 54, 192, 8, 239, 228, 216, 200, 64, 25>>,
   <<209, 84, 232, 128, 118, 238, 111, 112, 238, 74, 138, 15, 111, 78, 149, 159>>,
   <<154, 91, 141, 214, 121, 172, 200, 11, 136, 251, 129, 19, 183, 164, 78, 166>>,
   <<104, 162, 39, 63, 234, 140, 239, 42, 14, 95, 90, 206, 177, 138, 72, 246>>,
   <<20, 78, 134, 178, 95, 8, 9, 216, 216, 122, 70, 246, 78, 227, 88, 114>>,
   <<43, 99, 138, 22, 217, 41, 19, 86, 210, 143, 213, 86, 236, 5, 128, 89>>,
   <<148, 171, 230, 136, 98, 184, 253, 142, 121, 215, 241, 134, 236, 227, 217, 121>>,
   <<49, 96, 167, 176, 220, 11, 41, 10, 204, 116, 167, 52, 135, 129, 90, 173>>,
   <<185, 97, 10, 216, 15, 234, 57, 27, 147, 216, 136, 192, 232, 114, 25, 2>>,
   <<6, 39, 174, 0, 133, 220, 209, 63, 48, 93, 43, 97, 92, 34, 250, 52>>,
   <<8, 102, 98, 4, 57, 158, 169, 228, 147, 59, 78, 119, 111, 168, 93, 235>>,
   <<109, 131, 214, 160, 27, 252, 16, 221, 39, 177, 165, 172, 239, 3, 142, 26>>,
   <<191, 66, 28, 255, 100, 37, 218, 230, 196, 91, 32, 212, 155, 192, 66, 64>>,
   <<188, 219, 3, 176, 80, 77, 176, 114, 167, 191, 245, 204, 52, 30, 200, 46>>,
   <<80, 194, 126, 244, 108, 44, 151, 34, 25, 150, 121, 70, 236, 89, 7, 46>>,
   <<237, 251, 47, 45, 66, 58, 31, 243, 235, 207, 135, 56, 40, 0, 28, 152>>,
   <<12, 146, 255, 27, 176, 168, 88, 139, 103, 44, 224, 197, 32, 179, 225, 25>>,
   <<16, 196, 36, 115, 239, 247, 221, 240, 207, 170, 117, 164, 201, 109, 72, 18>>,
   <<88, 18, 68, 182, 86, 166, 135, 14, 10, 15, 2, 52, 174, 174, 193, 70>>,
   <<131, 131, 228, 107, 155, 26, 254, 190, 132, 169, 239, 207, 105, 77, 144, 26>>,
   <<148, 55, 75, 255, 76, 102, 38, 9, 227, 41, 251, 232, 221, 14, 109, 170>>,
   <<111, 128, 231, 62, 102, 65, 94, 246, 100, 145, 206, 190, 15, 223, 61, 130>>,
   <<118, 252, 97, 77, 241, 158, 78, 252, 102, 35, 179, 4, 48, 82, 211, 215>>,
   <<43, 28, 238, 76, 247, 236, 53, 161, 16, 223, 42, 144, 122, 25, 249, 195>>,
   <<78, 235, 166, 73, 40, 33, 93, 14, 4, 10, 223, 68, 254, 33, 238, 197>>,
   <<53, 24, 148, 49, 104, 21, 38, 52, 200, 169, 25, 94, 141, 142, 92, 75>>,
   <<40, 200, 117, 152, 39, 108, 221, 91, 216, 1, 168, 39, 5, 147, 45, 101>>,
   <<111, 204, 67, 226, 171, 1, 198, 165, 217, 115, 63, 40, 107, 88, 228, 151>>,
   <<119, 25, 229, 65, 64, 202, 243, 46, 165, 118, 130, 147, 183, 43, 247, 221>>,
   <<9, 26, 157, 120, 210, 138, 93, 213, 252, 216, 138, 62, 241, 89, 21, 228>>,
   <<33, 157, 130, 105, 94, 127, 68, 5, 247, 41, 87, 8, 211, 143, 146, 219>>,
   <<85, 53, 65, 70, 170, 187, 103, 101, 81, 147, 21, 186, 137, 153, 240, 66>>,
   <<130, 82, 44, 189, 132, 92, 63, 203, 233, 61, 94, 218, 100, 44, 92, 208>>,
   <<165, 60, 123, 159, 254, 182, 171, 197, 15, 70, 225, 159, 178, 158, 210, 99>>,
   <<158, 214, 96, 161, 248, 119, 60, 128, 90, 77, 119, 183, 144, 145, 181, 176>>,
   <<192, 50, 161, 60, 214, 183, 149, 146, 210, 0, 45, 113, 78, 43, 206, 26>>,
   <<116, 35, 122, 99, 143, 109, 79, 161, 167, 59, 36, 231, 215, 110, 130, 28>>,
   <<216, 153, 157, 248, 89, 48, 203, 146, 170, 19, 169, 188, 143, 238, 247, 78>>,
   <<161, 16, 168, 184, 240, 198, 204, 50, 4, 213, 35, 47, 154, 118, 97, 87>>,
   <<184, 0, 169, 146, 230, 172, 244, 244, 207, 215, 138, 120, 237, 50, 119, 55>>,
   <<75, 87, 17, 46, 102, 201, 215, 17, 7, 12, 132, 255, 57, 181, 190, 225>>,
   <<40, 42, 107, 138, 175, 98, 219, 109, 108, 7, 147, 38, 59, 29, 55, 78>>,
   <<161, 58, 39, 131, 192, 68, 214, 11, 50, 87, 54, 1, 176, 75, 180, 205>>,
   <<64, 66, 128, 167, 184, 37, 152, 158, 35, 5, 17, 88, 210, 172, 193, 182>>,
   <<121, 188, 35, 64, 32, 213, 4, 82, 133, 242, 250, 171, 127, 3, 127, 75>>,
   <<108, 176, 156, 57, 242, 241, 226, 188, 226, 2, 137, 28, 31, 76, 174, 34>>,
   <<52, 202, 205, 147, 235, 102, 198, 101, 197, 4, 161, 42, 7, 179, 88, 64>>,
   <<170, 48, 133, 3, 55, 231, 102, 206, 42, 170, 174, 2, 169, 124, 223, 229>>,
   <<192, 96, 129, 131, 72, 128, 157, 149, 4, 128, 103, 42, 173, 238, 130, 51>>,
   <<249, 214, 133, 183, 72, 250, 6, 148, 30, 55, 66, 43, 138, 28, 192, 148>>,
   <<156, 130, 215, 155, 13, 210, 186, 91, 201, 184, 153, 229, 127, 165, 85, 234>>,
   <<50, 85, 136, 244, 24, 99, 167, 196, 17, 215, 91, 146, 162, 145, 50, 149>>,
   <<189, 5, 18, 102, 8, 178, 240, 157, 88, 7, 169, 220, 131, 90, 177, 39>>,
   <<197, 207, 93, 84, 61, 102, 183, 220, 187, 140, 47, 177, 201, 100, 255, 208>>,
   <<85, 46, 142, 31, 94, 178, 175, 226, 130, 192, 72, 15, 209, 47, 102, 220>>,
   <<219, 112, 171, 44, 105, 92, 43, 180, 145, 9, 202, 149, 58, 215, 12, 167>>,
   <<199, 83, 49, 93, 172, 238, 105, 15, 116, 201, 36, 218, 222, 1, 119, 68>>,
   <<62, 241, 216, 239, 126, 250, 241, 114, 76, 210, 25, 106, 139, 8, 122, 43>>,
   <<9, 121, 198, 210, 170, 40, 216, 188, 188, 164, 5, 194, 240, 86, 247, 65>>,
   <<189, 248, 193, 121, 242, 200, 78, 35, 89, 95, 27, 42, 216, 233, 132, 220>>,
   <<240, 211, 67, 234, 243, 4, 8, 99, 36, 28, 178, 113, 220, 17, 201, 153>>,
   <<189, 73, 122, 132, 85, 192, 183, 198, 9, 221, 15, 179, 111, 175, 80, 159>>,
   <<219, 144, 161, 77, 63, 91, 34, 21, 71, 14, 144, 133, 145, 240, 250, 150>>,
   <<175, 67, 79, 32, 99, 219, 145, 5, 188, 139, 71, 92, 79, 145, 105, 38>>,
   <<156, 180, 152, 211, 93, 99, 142, 230, 74, 136, 91, 240, 72, 204, 56, 123>>,
   <<101, 38, 154, 19, 100, 8, 166, 125, 239, 63, 2, 25, 171, 34, 38, 21>>,
   <<142, 145, 95, 126, 5, 250, 208, 153, 60, 117, 25, 201, 177, 154, 128, 237>>,
   <<16, 244, 108, 209, 235, 118, 115, 52, 56, 163, 27, 74, 139, 5, 90, 241>>,
   <<219, 83, 243, 146, 100, 128, 169, 9, 238, 172, 83, 209, 118, 252, 100, 87>>,
   <<99, 96, 152, 135, 10, 74, 102, 131, 133, 229, 135, 230, 36, 217, 9, 254>>,
   <<225, 82, 242, 23, 247, 173, 41, 0, 101, 89, 246, 108, 76, 223, 94, 128>>,
   <<72, 235, 210, 243, 32, 99, 41, 198, 4, 100, 22, 75, 65, 170, 196, 179>>,
   <<56, 8, 40, 190, 25, 247, 213, 84, 13, 114, 40, 253, 251, 236, 167, 88>>,
   <<135, 60, 56, 122, 27, 151, 85, 90, 226, 130, 38, 70, 179, 162, 226, 225>>,
   <<56, 244, 6, 252, 243, 115, 7, 64, 228, 47, 10, 168, 229, 161, 236, 90>>,
   <<126, 252, 152, 24, 175, 200, 245, 2, 231, 165, 137, 73, 3, 52, 204, 14>>,
   <<148, 157, 122, 167, 9, 36, 129, 74, 108, 135, 247, 5, 1, 211, 112, 170>>,
   <<134, 95, 19, 79, 67, 173, 61, 225, 176, 78, 188, 79, 30, 23, 12, 101>>,
   <<209, 108, 15, 210, 26, 226, 26, 176, 124, 96, 56, 34, 82, 53, 209, 203>>,
   <<155, 80, 55, 55, 72, 4, 23, 113, 26, 66, 238, 25, 123, 63, 122, 79>>,
   <<67, 109, 188, 150, 243, 31, 246, 160, 119, 92, 43, 122, 209, 194, 160, 217>>,
   <<39, 187, 55, 98, 96, 38, 242, 82, 222, 242, 3, 178, 90, 6, 200, 137>>,
   <<103, 50, 25, 32, 228, 130, 103, 130, 20, 228, 225, 242, 57, 19, 1, 163>>,
   <<208, 23, 90, 154, 102, 247, 130, 166, 31, 150, 66, 19, 29, 94, 103, 149>>,
   <<170, 193, 199, 65, 131, 135, 43, 4, 147, 106, 133, 24, 252, 123, 11, 3>>,
   <<230, 65, 141, 73, 142, 84, 56, 243, 45, 173, 125, 100, 9, 219, 45, 119>>,
   <<129, 0, 171, 166, 188, 103, 120, 28, 247, 140, 137, 193, 29, 176, 197, 25>>,
   <<218, 151, 179, 229, 121, 140, 181, 167, 130, 50, 7, 70, 203, 103, 15, 168>>,
   <<200, 153, 113, 38, 24, 233, 46, 65, 6, 111, 191, 59, 113, 115, 0, 5>>,
   <<93, 253, 157, 41, 54, 64, 123, 181, 217, 136, 137, 65, 71, 45, 59, 186>>,
   <<9, 122, 157, 230, 188, 220, 222, 81, 253, 187, 61, 37, 155, 193, 15, 30>>,
   <<129, 49, 22, 97, 64, 34, 55, 211, 229, 213, 187, 104, 115, 135, 245, 107>>,
   <<163, 229, 169, 42, 185, 106, 5, 116, 233, 54, 7, 106, 253, 23, 200, 147>>,
   <<144, 220, 95, 244, 191, 240, 199, 183, 172, 54, 205, 183, 185, 89, 78, 5>>,
   <<154, 20, 180, 140, 175, 198, 201, 18, 34, 80, 124, 169, 148, 35, 3, 165>>,
   <<106, 164, 143, 180, 52, 135, 223, 48, 63, 172, 99, 220, 243, 136, 207, 207>>,
   <<219, 31, 130, 155, 20, 26, 197, 89, 48, 21, 200, 11, 190, 91, 71, 21>>,
   <<179, 12, 21, 248, 55, 236, 179, 230, 47, 42, 205, 223, 37, 2, 97, 110>>,
   <<233, 46, 2, 97, 192, 23, 122, 137, 239, 80, 239, 53, 16, 251, 194, 97>>,
   <<164, 137, 132, 134, 76, 43, 76, 198, 41, 237, 7, 172, 211, 83, 38, 198>>,
   <<103, 65, 242, 117, 253, 117, 76, 237, 138, 117, 94, 25, 126, 107, 124, 235>>,
   <<40, 251, 225, 136, 24, 230, 50, 197, 190, 3, 222, 109, 79, 106, 151, 198>>,
   <<13, 226, 224, 195, 96, 251, 194, 216, 71, 222, 178, 61, 67, 70, 186, 4>>,
   <<32, 54, 234, 101, 250, 190, 56, 254, 23, 67, 99, 109, 197, 12, 42, 219>>,
   <<181, 6, 159, 121, 175, 106, 216, 227, 165, 64, 37, 186, 179, 219, 191, 55>>,
   <<223, 54, 23, 56, 165, 85, 232, 19, 18, 76, 65, 173, 153, 146, 39, 24>>,
   <<92, 97, 214, 162, 25, 21, 111, 242, 147, 59, 247, 69, 19, 4, 42, 158>>,
   <<206, 3, 212, 101, 87, 169, 177, 208, 178, 51, 198, 186, 130, 48, 40, 113>>,
   <<2, 59, 32, 249, 107, 222, 225, 208, 49, 85, 129, 129, 127, 106, 83, 62>>,
   <<195, 73, 234, 241, 140, 175, 137, 147, 241, 42, 57, 99, 78, 249, 31, 186>>,
   <<39, 38, 84, 237, 95, 179, 202, 174, 151, 161, 245, 94, 63, 113, 221, 94>>,
   <<66, 66, 75, 18, 220, 233, 158, 55, 169, 189, 74, 131, 226, 84, 150, 187>>,
   <<94, 51, 0, 14, 253, 195, 197, 190, 229, 194, 77, 253, 76, 147, 195, 202>>,
   <<148, 41, 42, 99, 186, 171, 67, 200, 206, 29, 14, 142, 241, 239, 152, 97>>,
   <<242, 47, 15, 188, 70, 178, 160, 67, 125, 215, 56, 159, 177, 63, 143, 166>>,
   <<198, 210, 63, 28, 70, 84, 8, 24, 133, 78, 150, 101, 241, 66, 27, 67>>,
   <<70, 55, 145, 153, 13, 153, 50, 221, 138, 109, 186, 132, 108, 206, 112, 83>>,
   <<247, 180, 216, 174, 223, 232, 10, 9, 102, 70, 117, 219, 184, 203, 182, 240>>,
   <<197, 124, 100, 99, 32, 154, 106, 10, 142, 88, 56, 20, 162, 53, 107, 62>>,
   <<23, 30, 174, 233, 54, 208, 233, 202, 78, 164, 2, 8, 250, 5, 50, 161>>,
   <<60, 170, 138, 29, 111, 121, 220, 157, 20, 11, 52, 20, 186, 71, 21, 189>>,
   <<9, 204, 46, 153, 128, 46, 201, 105, 126, 19, 115, 68, 227, 205, 107, 157>>,
   <<158, 94, 149, 133, 33, 201, 192, 161, 216, 90, 113, 139, 16, 237, 165, 221>>,
   <<24, 165, 57, 165, 30, 218, 253, 84, 151, 25, 119, 238, 98, 133, 102, 235>>,
   <<48, 165, 168, 239, 210, 118, 204, 39, 226, 141, 125, 67, 32, 169, 138, 224>>,
   <<121, 88, 88, 88, 232, 182, 250, 80, 23, 217, 130, 57, 101, 39, 83, 53>>,
   <<17, 161, 151, 106, 59, 71, 69, 118, 179, 102, 120, 150, 68, 247, 47, 172>>,
   <<197, 166, 37, 126, 127, 244, 133, 108, 52, 107, 206, 183, 232, 148, 66, 85>>,
   <<216, 50, 123, 236, 60, 89, 170, 209, 209, 189, 4, 159, 134, 108, 94, 44>>,
   <<191, 37, 157, 147, 129, 160, 26, 116, 45, 35, 60, 42, 123, 120, 34, 103>>,
   <<36, 193, 122, 79, 97, 198, 149, 223, 77, 49, 83, 47, 19, 193, 39, 79>>,
   <<206, 74, 52, 121, 178, 101, 118, 42, 46, 58, 126, 206, 93, 212, 35, 180>>,
   <<10, 133, 186, 52, 32, 202, 183, 51, 116, 61, 5, 143, 89, 35, 66, 14>>,
   <<25, 55, 61, 191, 71, 138, 153, 77, 115, 153, 197, 190, 198, 39, 65, 240>>,
   <<150, 252, 173, 97, 251, 26, 253, 217, 56, 90, 79, 90, 154, 91, 35, 123>>,
   <<103, 13, 158, 213, 83, 4, 30, 155, 225, 83, 33, 235, 218, 50, 33, 147>>,
   <<208, 177, 140, 177, 158, 36, 169, 97, 185, 80, 119, 22, 80, 94, 63, 183>>,
   <<226, 185, 152, 58, 53, 28, 177, 128, 114, 102, 0, 233, 20, 2, 234, 84>>,
   <<85, 196, 228, 48, 183, 32, 222, 24, 153, 99, 244, 103, 223, 83, 37, 251>>,
   <<249, 117, 152, 162, 234, 249, 8, 143, 234, 77, 238, 39, 107, 221, 208, 83>>,
   <<87, 175, 147, 137, 153, 132, 232, 69, 20, 247, 228, 136, 73, 72, 227, 39>>,
   <<229, 9, 228, 115, 3, 186, 97, 52, 2, 138, 160, 158, 30, 114, 253, 116>>,
   <<225, 117, 55, 17, 4, 113, 149, 124, 6, 19, 211, 26, 66, 226, 5, 104>>,
   <<25, 36, 0, 129, 32, 94, 30, 239, 214, 54, 177, 19, 229, 202, 55, 132>>,
   <<201, 216, 9, 82, 201, 31, 6, 190, 160, 248, 246, 47, 209, 135, 13, 234>>,
   <<29, 111, 128, 12, 60, 153, 85, 45, 254, 13, 62, 23, 13, 6, 45, 189>>,
   <<113, 7, 94, 239, 76, 142, 43, 203, 242, 156, 124, 68, 150, 235, 21, 127>>,
   <<177, 192, 184, 212, 3, 73, 119, 39, 103, 65, 0, 194, 67, 211, 221, 84>>,
   <<195, 55, 162, 215, 120, 93, 165, 22, 160, 198, 0, 86, 150, 225, 175, 7>>,
   <<54, 38, 212, 93, 156, 66, 77, 229, 28, 176, 40, 209, 229, 146, 34, 78>>,
   <<53, 13, 1, 131, 60, 99, 221, 194, 208, 188, 95, 161, 122, 218, 181, 151>>,
   <<218, 211, 93, 255, 250, 171, 10, 81, 77, 24, 78, 215, 211, 182, 11, 47>>,
   <<160, 27, 74, 63, 39, 0, 101, 44, 6, 228, 201, 43, 124, 59, 5, 2>>,
   <<202, 243, 83, 147, 81, 11, 153, 30, 146, 209, 117, 233, 65, 248, 154, 15>>,
   <<140, 108, 231, 50, 9, 15, 18, 43, 76, 130, 128, 143, 16, 250, 248, 251>>,
   <<168, 202, 193, 53, 109, 48, 7, 243, 147, 144, 86, 155, 20, 116, 249, 246>>,
   <<235, 228, 52, 224, 27, 173, 202, 164, 44, 33, 44, 214, 226, 196, 246, 254>>,
   <<144, 49, 196, 214, 125, 161, 48, 129, 177, 72, 159, 249, 231, 161, 82, 25>>,
   <<156, 6, 191, 100, 201, 31, 72, 24, 192, 110, 163, 55, 124, 137, 182, 247>>,
   <<44, 233, 152, 67, 136, 1, 184, 88, 136, 60, 38, 229, 163, 94, 181, 50>>,
   <<182, 199, 134, 106, 91, 172, 130, 50, 13, 104, 207, 25, 49, 126, 217, 101>>,
   <<205, 73, 57, 214, 125, 42, 35, 3, 219, 135, 191, 47, 80, 224, 45, 61>>,
   <<236, 113, 49, 189, 100, 117, 180, 152, 100, 49, 39, 116, 29, 90, 76, 193>>,
   <<89, 238, 160, 224, 171, 194, 131, 115, 156, 57, 93, 176, 203, 8, 130, 167>>,
   <<228, 0, 93, 183, 69, 90, 47, 207, 183, 57, 126, 81, 181, 235, 135, 176>>,
   <<157, 64, 252, 189, 240, 129, 73, 140, 13, 237, 122, 65, 222, 27, 215, 81>>,
   <<137, 146, 168, 95, 242, 99, 30, 86, 234, 185, 103, 16, 30, 124, 116, 252>>,
   <<165, 30, 248, 153, 113, 161, 170, 147, 197, 120, 3, 55, 82, 0, 3, 26>>,
   <<219, 145, 248, 174, 123, 110, 131, 160, 16, 253, 211, 184, 129, 211, 48, 92>>,
   <<162, 98, 36, 108, 35, 217, 37, 55, 9, 18, 86, 100, 166, 236, 76, 19>>,
   <<238, 45, 109, 101, 65, 238, 116, 92, 160, 228, 183, 206, 74, 222, 56, 246>>,
   <<75, 25, 65, 64, 118, 117, 191, 119, 143, 19, 92, 130, 154, 69, 228, 155>>,
   <<226, 137, 160, 218, 146, 178, 64, 174, 162, 152, 104, 128, 51, 132, 251, 20>>,
   <<245, 224, 104, 29, 250, 220, 65, 188, 213, 58, 236, 56, 114, 75, 22, 113>>,
   <<21, 3, 209, 50, 148, 137, 167, 233, 249, 197, 243, 85, 137, 139, 13, 95>>,
   <<196, 171, 201, 246, 82, 64, 65, 186, 156, 164, 3, 136, 40, 185, 69, 37>>,
   <<205, 221, 23, 35, 18, 207, 131, 80, 111, 117, 103, 182, 122, 85, 69, 122>>,
   <<72, 120, 85, 190, 4, 108, 169, 121, 165, 15, 61, 250, 188, 238, 192, 138>>,
   <<24, 55, 41, 129, 36, 110, 76, 171, 111, 133, 195, 28, 192, 242, 107, 49>>,
   <<12, 173, 167, 101, 114, 211, 200, 170, 118, 37, 12, 191, 44, 158, 219, 250>>,
   <<83, 161, 145, 206, 125, 249, 171, 156, 36, 63, 193, 62, 214, 68, 69, 147>>,
   <<246, 166, 81, 22, 108, 156, 78, 239, 55, 16, 233, 37, 87, 160, 229, 239>>,
   <<154, 139, 89, 111, 106, 7, 60, 73, 178, 118, 136, 21, 182, 213, 4, 187>>,
   <<183, 177, 106, 175, 230, 219, 164, 116, 148, 158, 101, 209, 90, 11, 101, 224>>,
   <<208, 81, 199, 0, 166, 125, 220, 59, 237, 169, 7, 93, 21, 128, 217, 105>>,
   <<250, 148, 113, 150, 126, 176, 101, 65, 86, 227, 27, 82, 207, 122, 73, 58>>,
   <<229, 227, 154, 202, 201, 99, 123, 173, 212, 183, 199, 46, 89, 47, 137, 136>>,
   <<200, 3, 205, 92, 38, 181, 18, 146, 127, 83, 17, 168, 120, 48, 242, 28>>,
   <<119, 56, 178, 222, 252, 182, 244, 100, 10, 218, 179, 225, 53, 181, 80, 25>>,
   <<200, 131, 153, 30, 8, 78, 9, 228, 61, 31, 30, 188, 135, 213, 108, 14>>,
   <<225, 15, 110, 128, 103, 198, 124, 118, 220, 134, 7, 175, 60, 32, 24, 102>>,
   <<82, 185, 233, 73, 22, 6, 141, 179, 127, 134, 5, 199, 117, 92, 243, 241>>,
   <<66, 186, 179, 51, 116, 61, 179, 71, 221, 52, 83, 25, 253, 195, 170, 148>>,
   <<95, 65, 45, 242, 18, 48, 154, 169, 95, 87, 176, 41, 240, 255, 68, 8>>,
   <<128, 86, 182, 8, 197, 49, 170, 72, 38, 250, 112, 30, 82, 50, 94, 87>>,
   <<157, 67, 28, 6, 105, 159, 132, 93, 47, 86, 74, 226, 172, 96, 245, 211>>,
   <<174, 198, 209, 184, 219, 232, 65, 63, 118, 107, 233, 13, 116, 127, 103, 126>>,
   <<22, 241, 109, 139, 200, 196, 113, 253, 4, 108, 247, 119, 7, 25, 106, 16>>,
   <<234, 1, 73, 107, 190, 242, 38, 225, 129, 112, 184, 32, 160, 22, 7, 229>>,
   <<217, 254, 199, 147, 242, 114, 225, 5, 106, 227, 122, 246, 173, 154, 103, 80>>,
   <<16, 55, 126, 135, 171, 43, 251, 31, 229, 175, 98, 50, 23, 207, 35, 73>>,
   <<124, 236, 112, 130, 130, 216, 124, 37, 152, 109, 39, 47, 193, 29, 101, 32>>,
   <<198, 7, 27, 159, 95, 155, 244, 26, 202, 98, 20, 31, 79, 156, 109, 102>>,
   <<45, 90, 86, 77, 233, 139, 205, 63, 29, 125, 248, 226, 226, 58, 17, 97>>,
   <<159, 60, 105, 4, 4, 195, 207, 90, 205, 176, 24, 13, 20, 64, 177, 204>>,
   <<254, 180, 235, 237, 127, 214, 14, 226, 67, 231, 69, 11, 168, 145, 5, 115>>,
   <<191, 191, 169, 45, 122, 220, 4, 37, 222, 187, 192, 158, 50, 11, 188, 113>>,
   <<235, 167, 95, 15, 242, 39, 66, 122, 76, 53, 174, 26, 245, 172, 85, 205>>,
   <<149, 104, 224, 224, 104, 173, 59, 241, 110, 182, 99, 216, 77, 114, 1, 72>>,
   <<244, 92, 62, 20, 42, 117, 211, 195, 223, 81, 210, 131, 178, 143, 54, 27>>,
   <<217, 245, 50, 149, 65, 81, 81, 15, 249, 224, 193, 237, 36, 110, 59, 198>>,
   <<157, 114, 21, 124, 203, 82, 68, 83, 158, 117, 177, 102, 85, 161, 32, 251>>,
   <<118, 215, 55, 160, 77, 194, 196, 221, 132, 9, 156, 114, 23, 156, 212, 162>>,
   <<37, 45, 148, 206, 158, 255, 127, 2, 64, 64, 9, 122, 243, 1, 112, 227>>,
   <<50, 166, 45, 45, 22, 29, 38, 14, 152, 89, 176, 17, 236, 148, 20, 21>>,
   <<34, 33, 245, 180, 96, 50, 204, 121, 82, 180, 25, 91, 122, 219, 208, 60>>,
   <<91, 141, 69, 217, 10, 55, 1, 103, 73, 230, 201, 57, 17, 185, 138, 167>>,
   <<69, 81, 22, 233, 116, 122, 169, 12, 1, 202, 90, 102, 234, 130, 100, 110>>,
   <<248, 48, 148, 219, 129, 224, 161, 101, 25, 254, 176, 161, 47, 122, 49, 222>>,
   <<215, 101, 192, 149, 215, 58, 88, 55, 15, 223, 188, 184, 101, 161, 194, 93>>,
   <<69, 135, 28, 227, 136, 163, 183, 2, 67, 14, 53, 166, 16, 56, 232, 157>>,
   <<252, 241, 125, 253, 154, 24, 150, 161, 82, 89, 136, 26, 49, 110, 180, 97>>,
   <<21, 17, 254, 78, 14, 56, 170, 86, 233, 206, 221, 104, 88, 90, 237, 23>>,
   <<183, 138, 20, 214, 169, 188, 83, 15, 122, 82, 128, 116, 24, 235, 174, 131>>,
   <<255, 35, 89, 88, 69, 146, 221, 26, 39, 23, 214, 24, 163, 74, 234, 171>>,
   <<42, 130, 209, 205, 227, 124, 192, 148, 219, 154, 47, 100, 242, 247, 92, 4>>,
   <<187, 40, 73, 3, 255, 112, 74, 112, 153, 23, 48, 224, 196, 34, 175, 92>>,
   <<120, 46, 181, 34, 96, 150, 49, 174, 177, 164, 182, 72, 104, 76, 222, 139>>,
   <<75, 35, 21, 123, 183, 223, 125, 39, 219, 68, 71, 44, 135, 170, 181, 235>>,
   <<73, 72, 146, 125, 45, 62, 186, 238, 123, 85, 208, 98, 171, 169, 100, 45>>,
   <<213, 201, 157, 164, 133, 126, 137, 84, 95, 68, 191, 248, 225, 133, 218, 126>>,
   <<37, 112, 161, 53, 222, 251, 215, 41, 15, 132, 82, 253, 218, 75, 90, 205>>,
   <<118, 158, 36, 154, 203, 129, 133, 228, 178, 204, 57, 58, 128, 203, 123, 247>>,
   <<99, 203, 142, 58, 118, 168, 182, 73, 21, 92, 101, 236, 30, 214, 14, 178>>,
   <<181, 49, 205, 225, 94, 146, 175, 1, 254, 138, 81, 68, 183, 124, 167, 143>>,
   <<219, 230, 189, 132, 232, 199, 21, 136, 4, 247, 236, 219, 15, 166, 44, 159>>,
   <<29, 201, 47, 169, 6, 25, 82, 172, 195, 65, 34, 35, 248, 168, 18, 219>>,
   <<106, 19, 27, 147, 29, 29, 124, 12, 14, 150, 60, 15, 20, 113, 154, 243>>,
   <<221, 53, 168, 106, 234, 157, 22, 167, 147, 62, 139, 89, 36, 191, 153, 29>>,
   <<56, 26, 62, 93, 84, 176, 183, 133, 75, 144, 43, 109, 195, 191, 43, 198>>,
   <<71, 10, 126, 74, 108, 191, 156, 193, 139, 133, 131, 137, 239, 156, 142, 192>>,
   <<89, 98, 246, 225, 51, 201, 80, 82, 154, 126, 32, 161, 85, 27, 37, 147>>,
   <<121, 131, 140, 61, 154, 167, 203, 96, 12, 188, 88, 9, 96, 69, 212, 254>>,
   <<46, 105, 122, 250, 243, 7, 196, 123, 204, 141, 60, 3, 56, 238, 55, 46>>,
   <<12, 205, 114, 106, 160, 166, 221, 45, 109, 118, 252, 116, 141, 113, 122, 51>>,
   <<211, 53, 186, 111, 86, 64, 54, 96, 15, 66, 178, 45, 64, 208, 28, 113>>,
   <<182, 141, 42, 158, 228, 10, 170, 110, 177, 13, 253, 231, 91, 54, 199, 94>>,
   <<31, 79, 187, 31, 77, 5, 118, 15, 50, 222, 38, 26, 88, 32, 236, 59>>,
   <<60, 3, 108, 164, 14, 116, 240, 193, 223, 224, 72, 157, 204, 254, 73, 218>>,
   <<68, 38, 193, 74, 57, 15, 87, 133, 170, 145, 62, 96, 45, 42, 26, 182>>,
   <<159, 71, 196, 218, 145, 174, 39, 234, 50, 247, 187, 224, 17, 78, 232, 12>>,
   <<221, 216, 21, 101, 51, 113, 167, 44, 155, 198, 143, 132, 184, 94, 13, 92>>,
   <<26, 11, 66, 99, 146, 129, 250, 88, 197, 173, 165, 215, 45, 252, 19, 185>>,
   <<145, 225, 199, 87, 165, 22, 149, 9, 7, 101, 34, 244, 67, 116, 29, 254>>,
   <<145, 112, 37, 124, 100, 250, 109, 254, 4, 53, 51, 203, 85, 64, 45, 113>>,
   <<151, 44, 129, 31, 146, 171, 147, 81, 169, 186, 55, 80, 177, 180, 154, 2>>,
   <<108, 49, 228, 141, 93, 230, 49, 244, 154, 3, 226, 38, 118, 231, 79, 202>>,
   <<127, 99, 61, 39, 220, 75, 245, 123, 69, 250, 131, 134, 95, 211, 85, 137>>,
   <<27, 110, 83, 216, 103, 253, 19, 137, 217, 255, 223, 163, 34, 48, 99, 144>>,
   <<90, 118, 6, 75, 3, 137, 157, 149, 181, 132, 16, 135, 50, 39, 25, 10>>,
   <<45, 99, 122, 48, 4, 62, 79, 115, 96, 165, 149, 0, 234, 226, 49, 52>>,
   <<60, 123, 56, 15, 43, 241, 194, 119, 36, 241, 64, 161, 232, 0, 179, 195>>,
   <<41, 234, 119, 92, 251, 134, 186, 223, 41, 193, 104, 19, 12, 124, 161, 122>>,
   <<71, 224, 81, 248, 212, 175, 245, 217, 51, 78, 220, 24, 230, 197, 194, 58>>,
   <<142, 164, 177, 165, 205, 93, 232, 66, 142, 104, 249, 169, 129, 118, 195, 198>>,
   <<147, 175, 6, 200, 124, 48, 25, 32, 82, 18, 254, 202, 249, 150, 176, 243>>,
   <<193, 246, 91, 98, 166, 222, 65, 160, 142, 14, 182, 25, 110, 169, 66, 160>>,
   <<193, 64, 225, 202, 195, 74, 79, 52, 24, 187, 172, 237, 80, 140, 244, 62>>,
   <<119, 195, 159, 226, 69, 209, 29, 150, 22, 104, 244, 132, 93, 170, 30, 72>>,
   <<240, 98, 135, 61, 168, 194, 150, 89, 107, 28, 199, 140, 247, 125, 67, 33>>,
   <<175, 77, 121, 215, 195, 244, 200, 67, 110, 142, 232, 19, 4, 69, 113, 153>>,
   <<119, 40, 125, 195, 90, 26, 37, 124, 83, 165, 112, 199, 172, 124, 47, 0>>,
   <<127, 196, 241, 29, 100, 231, 37, 200, 121, 220, 201, 177, 179, 237, 54, 196>>,
   <<200, 120, 152, 141, 3, 57, 59, 207, 235, 107, 209, 79, 57, 56, 220, 143>>,
   <<22, 187, 39, 190, 15, 181, 139, 142, 190, 15, 51, 66, 206, 140, 253, 145>>,
   <<67, 11, 113, 65, 97, 187, 75, 247, 74, 20, 236, 121, 236, 149, 175, 237>>,
   <<64, 116, 93, 66, 218, 34, 89, 155, 108, 124, 213, 9, 110, 34, 7, 147>>,
   <<168, 215, 101, 32, 117, 19, 152, 158, 159, 123, 254, 63, 9, 8, 79, 149>>,
   <<226, 239, 115, 186, 247, 180, 246, 209, 133, 220, 190, 163, 7, 74, 101, 178>>,
   <<61, 255, 196, 11, 126, 232, 153, 179, 68, 117, 187, 105, 95, 229, 130, 93>>,
   <<46, 191, 225, 50, 244, 49, 251, 3, 206, 147, 13, 250, 106, 206, 121, 119>>,
   <<197, 235, 21, 107, 135, 59, 138, 201, 61, 174, 78, 110, 22, 215, 238, 156>>,
   <<206, 95, 151, 32, 253, 75, 73, 64, 81, 115, 175, 252, 224, 238, 250, 56>>,
   <<108, 181, 24, 168, 42, 196, 192, 233, 142, 71, 93, 55, 249, 6, 224, 244>>,
   <<244, 186, 206, 158, 9, 183, 16, 38, 179, 130, 6, 178, 117, 18, 30, 164>>,
   <<254, 142, 116, 22, 60, 88, 245, 228, 153, 81, 181, 162, 67, 177, 9, 86>>,
   <<17, 180, 168, 22, 0, 32, 203, 137, 11, 176, 193, 118, 112, 113, 189, 71>>,
   <<248, 216, 158, 17, 99, 245, 113, 51, 38, 178, 49, 4, 219, 57, 47, 135>>,
   <<243, 70, 6, 250, 121, 88, 193, 138, 234, 89, 104, 128, 39, 253, 83, 121>>,
   <<166, 64, 208, 118, 151, 130, 120, 147, 252, 48, 147, 207, 162, 1, 44, 218>>,
   <<230, 93, 237, 171, 130, 135, 229, 11, 164, 190, 140, 73, 18, 213, 243, 150>>,
   <<225, 41, 53, 128, 231, 225, 49, 152, 44, 56, 248, 127, 114, 110, 172, 209>>,
   <<218, 15, 193, 229, 204, 28, 91, 28, 113, 240, 199, 52, 226, 212, 59, 168>>,
   <<236, 148, 93, 215, 181, 48, 40, 247, 200, 42, 55, 170, 198, 102, 38, 150>>,
   <<33, 47, 220, 196, 85, 200, 170, 57, 75, 128, 217, 135, 100, 66, 171, 72>>,
   <<59, 216, 174, 58, 130, 219, 165, 19, 150, 183, 231, 171, 77, 77, 212, 61>>,
   <<114, 30, 26, 212, 57, 103, 143, 125, 67, 88, 75, 99, 7, 68, 32, 55>>,
   <<188, 159, 40, 133, 22, 19, 129, 108, 85, 64, 71, 143, 23, 31, 199, 211>>,
   <<44, 114, 128, 45, 255, 27, 70, 4, 201, 195, 48, 113, 47, 173, 180, 197>>,
   <<128, 87, 95, 172, 33, 160, 235, 231, 65, 154, 187, 156, 30, 231, 221, 221>>,
   <<211, 54, 103, 101, 6, 215, 161, 184, 97, 89, 86, 114, 205, 68, 245, 61>>,
   <<245, 50, 214, 171, 128, 137, 132, 82, 145, 183, 91, 21, 114, 84, 81, 49>>,
   <<175, 91, 56, 18, 83, 2, 113, 29, 201, 115, 234, 1, 224, 51, 244, 110>>,
   <<24, 201, 39, 151, 80, 42, 182, 14, 248, 119, 63, 151, 214, 229, 195, 166>>,
   <<211, 75, 66, 247, 167, 242, 60, 62, 252, 243, 25, 89, 93, 61, 187, 190>>,
   <<104, 144, 192, 124, 120, 57, 207, 253, 57, 169, 101, 7, 17, 127, 237, 106>>,
   <<238, 253, 243, 51, 67, 227, 179, 62, 74, 50, 100, 204, 146, 112, 18, 5>>,
   <<12, 118, 123, 53, 199, 46, 147, 20, 216, 228, 15, 110, 146, 0, 9, 249>>,
   <<143, 97, 174, 217, 233, 71, 14, 66, 77, 240, 22, 184, 15, 118, 120, 163>>,
   <<85, 194, 193, 126, 161, 67, 164, 252, 236, 157, 225, 23, 187, 145, 52, 34>>,
   <<223, 250, 179, 204, 222, 236, 195, 36, 195, 109, 219, 121, 21, 188, 243, 170>>,
   <<23, 251, 70, 240, 183, 151, 101, 120, 123, 241, 236, 118, 242, 133, 61, 230>>,
   <<68, 14, 234, 28, 9, 116, 187, 2, 112, 39, 244, 69, 44, 251, 151, 174>>,
   <<76, 146, 97, 180, 18, 35, 55, 207, 167, 37, 1, 64, 129, 96, 32, 145>>,
   <<121, 28, 115, 238, 134, 246, 136, 40, 134, 132, 108, 58, 8, 250, 98, 145>>,
   <<85, 54, 208, 236, 112, 35, 91, 241, 42, 241, 164, 3, 231, 51, 55, 47>>,
   <<135, 170, 103, 98, 96, 7, 137, 23, 167, 243, 38, 115, 188, 203, 158, 71>>,
   <<136, 54, 125, 200, 54, 204, 229, 100, 202, 130, 131, 108, 205, 60, 140, 157>>,
   <<64, 252, 153, 122, 29, 84, 101, 215, 247, 208, 65, 126, 154, 86, 158, 86>>,
   <<141, 52, 151, 196, 16, 248, 68, 253, 135, 107, 228, 95, 101, 60, 165, 127>>,
   <<61, 75, 242, 25, 190, 234, 63, 12, 179, 60, 110, 129, 53, 252, 227, 87>>,
   <<73, 135, 104, 142, 126, 124, 112, 168, 10, 52, 78, 37, 21, 131, 247, 180>>,
   <<114, 130, 200, 224, 35, 108, 231, 91, 248, 228, 217, 242, 183, 224, 38, 190>>,
   <<136, 86, 8, 81, 175, 42, 97, 186, 57, 149, 170, 195, 188, 230, 87, 7>>,
   <<182, 220, 163, 236, 155, 31, 28, 152, 3, 225, 93, 75, 240, 78, 77, 244>>,
   <<213, 155, 190, 83, 19, 251, 6, 207, 30, 227, 56, 145, 196, 63, 186, 55>>,
   <<185, 158, 97, 102, 69, 230, 150, 25, 94, 10, 43, 171, 232, 198, 151, 106>>,
   <<223, 93, 60, 235, 55, 72, 235, 55, 36, 106, 107, 45, 177, 192, 43, 119>>,
   <<47, 247, 180, 73, 253, 207, 147, 101, 153, 194, 154, 93, 223, 220, 110, 58>>,
   <<214, 41, 107, 31, 5, 101, 251, 26, 144, 115, 66, 83, 128, 83, 59, 46>>,
   <<73, 225, 251, 19, 213, 238, 156, 149, 215, 171, 75, 84, 120, 102, 180, 208>>,
   <<231, 117, 102, 167, 158, 74, 235, 61, 13, 151, 180, 47, 226, 24, 156, 173>>,
   <<142, 249, 106, 70, 100, 50, 137, 165, 180, 118, 19, 183, 11, 86, 175, 109>>,
   <<109, 192, 223, 246, 226, 171, 89, 61, 234, 146, 214, 110, 22, 229, 107, 38>>,
   <<165, 43, 176, 114, 136, 226, 114, 123, 192, 84, 77, 43, 196, 68, 254, 196>>,
   <<150, 206, 137, 229, 8, 89, 208, 201, 174, 98, 232, 170, 148, 47, 218, 154>>,
   <<208, 108, 30, 216, 51, 201, 103, 139, 211, 153, 207, 1, 211, 190, 55, 79>>,
   <<198, 174, 207, 175, 181, 248, 240, 190, 82, 189, 204, 105, 39, 169, 47, 99>>,
   <<189, 228, 196, 209, 23, 41, 158, 139, 226, 212, 33, 63, 19, 226, 228, 72>>,
   <<62, 196, 230, 138, 198, 110, 204, 13, 199, 7, 95, 171, 131, 97, 192, 180>>,
   <<183, 205, 154, 195, 49, 15, 91, 63, 95, 152, 175, 159, 148, 94, 87, 120>>,
   <<85, 17, 172, 132, 225, 103, 179, 197, 3, 132, 72, 41, 192, 180, 231, 99>>,
   <<193, 252, 18, 132, 108, 78, 49, 207, 242, 219, 13, 224, 216, 178, 132, 230>>,
   <<208, 224, 29, 59, 133, 201, 141, 220, 17, 58, 33, 149, 160, 249, 200, 23>>,
   <<29, 229, 10, 60, 44, 164, 21, 66, 57, 255, 97, 241, 25, 112, 242, 141>>,
   <<69, 0, 78, 170, 105, 221, 219, 136, 238, 55, 220, 148, 155, 20, 205, 153>>,
   <<132, 250, 115, 0, 172, 239, 154, 19, 150, 83, 31, 177, 2, 111, 99, 130>>,
   <<130, 169, 32, 252, 29, 197, 102, 68, 159, 32, 250, 233, 21, 139, 134, 111>>,
   <<106, 0, 12, 108, 19, 47, 23, 137, 74, 105, 200, 198, 18, 153, 253, 110>>,
   <<216, 53, 247, 185, 134, 49, 134, 81, 148, 177, 65, 136, 40, 132, 121, 69>>,
   <<28, 83, 70, 60, 88, 218, 119, 171, 128, 147, 192, 142, 80, 190, 61, 7>>,
   <<124, 59, 83, 232, 246, 248, 93, 190, 192, 208, 146, 200, 178, 56, 140, 218>>,
   <<161, 70, 118, 149, 161, 205, 129, 237, 0, 234, 57, 229, 78, 175, 237, 114>>,
   <<255, 28, 207, 98, 7, 7, 212, 225, 177, 90, 76, 255, 180, 125, 190, 237>>,
   <<138, 124, 45, 28, 139, 81, 248, 247, 233, 78, 145, 51, 71, 22, 88, 87>>,
   <<96, 142, 190, 68, 161, 227, 204, 216, 64, 115, 24, 145, 92, 146, 245, 221>>,
   <<99, 252, 80, 13, 92, 67, 125, 103, 35, 190, 4, 21, 106, 47, 41, 182>>,
   <<213, 77, 84, 155, 218, 24, 217, 93, 164, 87, 65, 201, 19, 148, 127, 161>>,
   <<49, 129, 18, 154, 22, 236, 59, 143, 174, 195, 18, 90, 236, 231, 219, 221>>,
   <<129, 61, 148, 53, 109, 99, 47, 220, 1, 213, 164, 245, 59, 97, 207, 212>>,
   <<255, 218, 164, 214, 179, 237, 47, 198, 218, 244, 115, 80, 78, 157, 28, 84>>,
   <<201, 199, 116, 130, 4, 76, 255, 28, 234, 164, 252, 229, 47, 114, 89, 128>>,
   <<230, 157, 239, 11, 130, 209, 142, 52, 121, 219, 60, 186, 231, 72, 154, 100>>,
   <<31, 71, 168, 238, 49, 43, 75, 220, 40, 37, 149, 48, 146, 140, 92, 73>>,
   <<132, 213, 108, 80, 110, 131, 149, 250, 130, 232, 235, 150, 50, 88, 193, 154>>,
   <<59, 39, 18, 138, 241, 99, 22, 189, 152, 162, 83, 246, 133, 72, 138, 67>>,
   <<245, 224, 109, 111, 214, 101, 75, 115, 11, 72, 39, 217, 229, 25, 200, 151>>,
   <<96, 144, 100, 247, 207, 166, 97, 194, 174, 239, 66, 111, 35, 31, 13, 196>>,
   <<181, 182, 148, 165, 52, 190, 114, 172, 246, 217, 53, 213, 196, 114, 168, 47>>,
   <<18, 112, 106, 184, 212, 159, 29, 224, 130, 172, 51, 101, 250, 250, 71, 250>>,
   <<45, 151, 193, 100, 76, 5, 224, 176, 15, 176, 92, 138, 89, 222, 146, 154>>,
   <<7, 49, 11, 151, 115, 213, 120, 229, 164, 235, 217, 12, 156, 14, 26, 81>>,
   <<205, 178, 36, 188, 135, 128, 116, 182, 109, 63, 7, 112, 75, 195, 63, 4>>,
   <<246, 218, 165, 22, 89, 129, 128, 80, 85, 166, 201, 58, 200, 206, 176, 92>>,
   <<161, 110, 50, 82, 22, 90, 223, 208, 73, 99, 55, 203, 22, 160, 217, 160>>,
   <<216, 210, 9, 156, 3, 80, 45, 253, 166, 123, 7, 30, 222, 6, 198, 161>>,
   <<223, 26, 236, 177, 48, 14, 193, 18, 146, 107, 237, 75, 235, 99, 117, 43>>,
   <<217, 126, 124, 120, 193, 161, 238, 70, 52, 100, 228, 204, 7, 182, 52, 40>>,
   <<140, 6, 84, 174, 234, 3, 219, 6, 140, 98, 87, 6, 126, 149, 227, 126>>,
   <<154, 204, 123, 106, 218, 83, 80, 72, 189, 171, 233, 147, 200, 73, 79, 58>>,
   <<190, 174, 232, 102, 83, 88, 185, 236, 135, 93, 186, 153, 49, 144, 51, 165>>,
   <<139, 195, 50, 177, 152, 11, 202, 172, 174, 148, 252, 9, 121, 181, 22, 226>>,
   <<254, 189, 85, 6, 34, 107, 16, 25, 187, 150, 237, 177, 93, 98, 45, 107>>,
   <<191, 131, 244, 135, 115, 239, 82, 165, 148, 206, 54, 209, 22, 206, 214, 37>>,
   <<126, 148, 228, 128, 148, 66, 151, 2, 66, 96, 145, 22, 156, 92, 23, 130>>,
   <<55, 54, 2, 96, 188, 176, 143, 78, 154, 147, 249, 68, 162, 40, 143, 141>>,
   <<107, 118, 233, 212, 78, 160, 213, 55, 190, 131, 237, 69, 87, 91, 254, 237>>,
   <<164, 44, 35, 199, 56, 133, 228, 230, 22, 211, 13, 242, 164, 197, 202, 195>>,
   <<232, 199, 84, 44, 2, 68, 240, 144, 136, 172, 84, 253, 20, 149, 57, 250>>,
   <<148, 201, 236, 223, 8, 98, 170, 215, 207, 154, 49, 199, 30, 146, 23, 143>>,
   <<243, 108, 128, 48, 246, 129, 118, 137, 22, 167, 26, 242, 236, 8, 110, 118>>,
   <<196, 156, 15, 61, 176, 116, 210, 223, 129, 75, 2, 150, 50, 79, 161, 12>>,
   <<220, 36, 41, 43, 80, 82, 89, 88, 89, 149, 65, 32, 2, 184, 214, 31>>,
   <<230, 254, 220, 174, 162, 91, 235, 11, 166, 192, 222, 147, 29, 81, 97, 92>>,
   <<112, 158, 193, 149, 203, 227, 249, 146, 177, 69, 71, 124, 225, 165, 96, 71>>,
   <<42, 190, 206, 142, 239, 253, 187, 29, 73, 134, 140, 20, 44, 197, 125, 148>>,
   <<200, 208, 217, 147, 144, 178, 141, 247, 198, 84, 16, 122, 146, 145, 153, 247>>,
   <<51, 248, 185, 38, 232, 124, 247, 241, 209, 201, 151, 113, 25, 12, 174, 151>>,
   <<11, 142, 110, 200, 138, 58, 235, 153, 208, 141, 130, 180, 222, 152, 146, 115>>,
   <<102, 254, 18, 216, 163, 24, 13, 12, 138, 168, 28, 232, 236, 120, 245, 38>>,
   <<10, 220, 35, 181, 100, 82, 246, 206, 135, 229, 79, 207, 174, 52, 144, 29>>,
   <<141, 87, 8, 217, 78, 177, 213, 252, 170, 14, 240, 114, 169, 119, 131, 66>>,
   <<165, 199, 79, 90, 95, 126, 109, 21, 151, 137, 106, 158, 88, 78, 104, 142>>,
   <<14, 56, 77, 26, 42, 170, 206, 157, 152, 212, 55, 81, 168, 164, 251, 124>>,
   <<73, 182, 168, 200, 18, 210, 113, 87, 74, 46, 175, 117, 18, 219, 78, 168>>,
   <<251, 105, 237, 22, 12, 48, 199, 120, 178, 132, 117, 113, 126, 109, 202, 111>>,
   <<13, 169, 151, 173, 42, 77, 198, 97, 53, 240, 55, 247, 226, 110, 134, 198>>,
   <<106, 110, 146, 246, 97, 223, 149, 134, 68, 80, 134, 160, 2, 251, 43, 61>>,
   <<2, 33, 16, 182, 253, 141, 136, 224, 70, 30, 33, 24, 176, 130, 68, 35>>,
   <<9, 223, 170, 30, 134, 214, 247, 80, 156, 90, 118, 38, 90, 201, 130, 125>>,
   <<140, 120, 120, 181, 170, 106, 40, 46, 6, 190, 247, 116, 207, 57, 212, 255>>,
   <<103, 174, 177, 26, 67, 241, 109, 101, 21, 166, 236, 77, 221, 103, 170, 76>>,
   <<204, 75, 145, 204, 148, 55, 131, 7, 88, 139, 90, 96, 188, 52, 241, 2>>,
   <<4, 99, 29, 83, 76, 38, 235, 169, 93, 98, 141, 28, 30, 35, 219, 18>>,
   <<159, 5, 219, 0, 114, 149, 97, 198, 235, 87, 119, 12, 129, 114, 169, 100>>,
   <<27, 82, 63, 133, 172, 206, 170, 16, 251, 85, 199, 14, 233, 156, 63, 171>>,
   <<56, 191, 62, 80, 64, 216, 141, 215, 139, 91, 92, 250, 158, 75, 115, 37>>,
   <<157, 17, 122, 186, 3, 91, 14, 120, 105, 198, 45, 111, 218, 130, 139, 130>>,
   <<16, 116, 8, 6, 86, 41, 204, 15, 185, 221, 87, 177, 115, 169, 161, 226>>,
   <<149, 8, 235, 1, 157, 61, 18, 88, 132, 186, 9, 26, 24, 101, 104, 14>>,
   <<116, 74, 90, 210, 53, 13, 179, 232, 69, 84, 109, 232, 195, 41, 177, 20>>,
   <<240, 148, 193, 245, 65, 223, 53, 175, 14, 146, 95, 217, 137, 192, 230, 161>>,
   <<49, 255, 144, 171, 234, 197, 68, 149, 206, 170, 94, 57, 126, 134, 170, 137>>,
   <<106, 235, 160, 22, 135, 33, 190, 77, 225, 241, 10, 227, 34, 169, 77, 176>>,
   <<207, 67, 249, 144, 50, 222, 211, 115, 153, 96, 66, 237, 206, 32, 224, 16>>,
   <<115, 136, 172, 19, 106, 61, 185, 73, 204, 175, 52, 1, 12, 131, 87, 206>>,
   <<214, 94, 46, 182, 162, 61, 114, 107, 43, 170, 171, 80, 20, 229, 3, 123>>,
   <<154, 54, 219, 217, 75, 19, 114, 198, 100, 59, 215, 47, 142, 140, 255, 85>>,
   <<35, 250, 214, 56, 203, 200, 77, 194, 192, 244, 222, 190, 47, 243, 242, 248>>,
   <<47, 181, 119, 32, 3, 137, 150, 32, 207, 112, 101, 180, 5, 219, 185, 233>>,
   <<187, 214, 92, 37, 70, 168, 175, 127, 195, 178, 238, 129, 72, 192, 235, 198>>,
   <<226, 101, 43, 214, 174, 104, 23, 68, 217, 66, 244, 235, 162, 102, 180, 14>>,
   <<254, 132, 87, 123, 78, 188, 79, 51, 161, 113, 205, 48, 77, 15, 156, 255>>,
   <<181, 63, 81, 8, 170, 42, 75, 29, 122, 49, 215, 19, 98, 232, 88, 38>>,
   <<247, 1, 229, 76, 23, 160, 207, 217, 153, 108, 189, 219, 79, 21, 75, 218>>,
   <<149, 24, 147, 150, 82, 92, 177, 143, 24, 55, 3, 38, 13, 68, 115, 213>>,
   <<151, 164, 43, 234, 254, 193, 159, 182, 67, 239, 225, 208, 182, 163, 55, 197>>,
   <<9, 243, 39, 158, 207, 90, 134, 76, 224, 138, 159, 254, 84, 155, 131, 159>>,
   <<79, 244, 162, 149, 209, 197, 66, 162, 8, 42, 164, 153, 237, 139, 147, 204>>,
   <<69, 1, 239, 232, 56, 92, 226, 28, 68, 242, 10, 249, 254, 148, 216, 197>>,
   <<51, 173, 119, 44, 43, 129, 126, 244, 21, 90, 5, 141, 35, 93, 89, 232>>,
   <<117, 130, 142, 179, 184, 226, 217, 218, 31, 159, 166, 239, 162, 208, 8, 7>>,
   <<205, 195, 11, 227, 134, 155, 248, 9, 215, 237, 127, 119, 85, 205, 59, 21>>,
   <<165, 63, 20, 179, 227, 120, 29, 41, 82, 94, 127, 235, 143, 40, 8, 176>>,
   <<107, 26, 124, 238, 229, 18, 225, 125, 2, 79, 214, 34, 134, 116, 84, 218>>,
   <<217, 45, 54, 54, 244, 166, 150, 84, 217, 130, 104, 181, 145, 72, 163, 213>>,
   <<248, 122, 89, 241, 246, 39, 162, 195, 104, 115, 76, 201, 97, 62, 33, 109>>,
   <<42, 113, 15, 103, 245, 85, 88, 192, 248, 233, 248, 51, 79, 212, 89, 196>>,
   <<189, 32, 184, 164, 178, 216, 253, 216, 231, 176, 63, 126, 245, 185, 55, 78>>,
   <<80, 154, 87, 55, 11, 148, 201, 165, 234, 149, 121, 137, 199, 149, 142, 94>>,
   <<147, 112, 105, 213, 64, 254, 169, 26, 29, 10, 109, 177, 0, 246, 180, 115>>,
   <<148, 77, 94, 197, 206, 169, 102, 145, 18, 238, 206, 18, 250, 164, 153, 234>>,
   <<68, 62, 37, 207, 0, 34, 3, 133, 91, 3, 80, 120, 185, 84, 32, 45>>,
   <<71, 248, 141, 184, 46, 248, 244, 139, 54, 175, 94, 40, 61, 157, 30, 207>>,
   <<61, 245, 181, 86, 52, 173, 234, 104, 205, 233, 20, 204, 242, 21, 190, 107>>,
   <<105, 184, 237, 254, 156, 154, 144, 30, 211, 206, 109, 86, 205, 46, 242, 114>>,
   <<64, 182, 52, 131, 210, 43, 187, 199, 48, 1, 120, 90, 239, 140, 77, 169>>,
   <<240, 252, 212, 212, 242, 187, 228, 123, 226, 186, 227, 22, 215, 210, 177, 82>>,
   <<243, 222, 30, 180, 184, 41, 67, 133, 166, 239, 117, 59, 251, 46, 86, 244>>,
   <<63, 83, 92, 143, 175, 168, 111, 5, 74, 145, 239, 90, 86, 142, 246, 187>>,
   <<85, 27, 243, 89, 61, 126, 102, 139, 162, 189, 250, 19, 163, 30, 15, 12>>,
   <<18, 237, 223, 113, 34, 9, 199, 63, 176, 86, 4, 148, 141, 104, 232, 217>>,
   <<4, 219, 183, 136, 212, 212, 174, 44, 101, 59, 53, 28, 63, 134, 42, 176>>,
   <<50, 180, 141, 188, 244, 134, 172, 240, 1, 17, 16, 101, 168, 243, 196, 167>>,
   <<229, 38, 140, 182, 239, 84, 226, 111, 237, 103, 104, 85, 198, 146, 92, 61>>,
   <<234, 7, 147, 90, 234, 163, 169, 122, 249, 149, 244, 30, 79, 35, 94, 253>>,
   <<230, 192, 76, 206, 191, 22, 34, 168, 100, 140, 114, 59, 111, 176, 57, 13>>,
   <<104, 5, 19, 91, 241, 74, 122, 141, 157, 125, 235, 158, 143, 91, 237, 11>>,
   <<84, 58, 187, 122, 12, 119, 118, 2, 75, 254, 30, 75, 102, 137, 34, 115>>,
   <<142, 73, 155, 231, 221, 143, 173, 141, 205, 118, 151, 102, 211, 148, 60, 76>>,
   <<234, 94, 105, 153, 177, 226, 221, 236, 64, 179, 107, 113, 120, 26, 180, 94>>,
   <<180, 88, 66, 39, 89, 154, 237, 158, 198, 47, 58, 130, 213, 185, 6, 133>>,
   <<58, 82, 87, 137, 236, 56, 75, 136, 209, 100, 225, 112, 9, 179, 224, 168>>,
   <<100, 224, 132, 125, 5, 67, 87, 184, 214, 205, 244, 2, 28, 225, 39, 122>>,
   <<16, 10, 29, 215, 91, 201, 87, 131, 114, 75, 101, 15, 247, 125, 128, 204>>,
   <<181, 105, 7, 138, 64, 248, 180, 103, 151, 52, 84, 163, 145, 206, 2, 14>>,
   <<27, 165, 185, 115, 174, 54, 158, 214, 56, 228, 181, 208, 93, 49, 42, 206>>,
   <<226, 35, 254, 177, 255, 125, 155, 253, 229, 141, 20, 35, 220, 186, 29, 124>>,
   <<240, 172, 137, 168, 223, 189, 36, 191, 194, 122, 73, 109, 100, 72, 52, 122>>,
   <<205, 205, 23, 119, 68, 14, 145, 142, 43, 242, 56, 21, 229, 238, 68, 128>>,
   <<169, 123, 217, 249, 163, 101, 116, 248, 223, 229, 179, 218, 24, 33, 160, 88>>,
   <<140, 120, 142, 235, 34, 73, 120, 215, 138, 61, 99, 248, 126, 188, 129, 173>>,
   <<4, 34, 167, 143, 154, 224, 87, 25, 169, 87, 124, 176, 69, 191, 134, 2>>,
   <<248, 120, 156, 175, 199, 130, 237, 243, 230, 36, 79, 47, 23, 203, 50, 12>>,
   <<60, 197, 19, 42, 45, 251, 60, 129, 35, 159, 192, 242, 189, 201, 233, 61>>,
   <<115, 154, 143, 92, 53, 46, 133, 58, 229, 91, 125, 58, 187, 114, 33, 243>>,
   <<245, 235, 244, 236, 235, 210, 47, 145, 210, 34, 135, 188, 240, 107, 227, 42>>,
   <<99, 115, 35, 253, 114, 163, 210, 63, 163, 207, 225, 210, 75, 34, 249, 222>>,
   <<23, 22, 133, 116, 104, 189, 208, 75, 30, 91, 157, 204, 228, 51, 234, 18>>,
   <<167, 68, 209, 206, 16, 241, 213, 98, 1, 121, 183, 128, 209, 157, 86, 127>>,
   <<100, 92, 119, 209, 73, 189, 130, 53, 117, 236, 178, 207, 19, 252, 124, 246>>,
   <<195, 206, 133, 24, 214, 100, 125, 119, 44, 106, 185, 48, 141, 120, 139, 54>>,
   <<9, 136, 241, 5, 34, 151, 243, 82, 249, 232, 75, 36, 233, 152, 23, 84>>,
   <<94, 75, 40, 151, 68, 27, 54, 197, 182, 175, 130, 46, 36, 176, 166, 81>>,
   <<149, 18, 54, 82, 119, 67, 37, 234, 46, 248, 155, 30, 102, 85, 19, 44>>,
   <<125, 51, 135, 241, 139, 133, 105, 197, 207, 18, 153, 54, 82, 20, 181, 117>>,
   <<110, 173, 19, 59, 96, 74, 179, 70, 227, 23, 184, 97, 219, 114, 113, 112>>,
   <<131, 50, 248, 95, 172, 158, 136, 183, 157, 218, 74, 189, 153, 2, 67, 150>>,
   <<14, 198, 22, 40, 166, 17, 210, 41, 88, 226, 148, 233, 185, 225, 81, 249>>,
   <<30, 237, 81, 0, 209, 30, 15, 117, 222, 215, 215, 42, 48, 111, 247, 75>>,
   <<255, 70, 32, 80, 180, 168, 7, 170, 60, 63, 222, 241, 244, 22, 229, 194>>,
   <<206, 56, 114, 63, 108, 82, 10, 214, 191, 238, 21, 17, 185, 35, 10, 49>>,
   <<161, 22, 75, 48, 231, 131, 19, 191, 182, 123, 114, 21, 72, 33, 112, 188>>,
   <<105, 48, 202, 33, 126, 234, 188, 104, 62, 9, 68, 221, 106, 16, 44, 246>>,
   <<134, 70, 190, 213, 194, 128, 250, 165, 221, 222, 52, 10, 27, 197, 53, 78>>,
   <<87, 229, 211, 128, 133, 172, 120, 140, 129, 45, 13, 111, 119, 174, 234, 163>>,
   <<193, 62, 168, 147, 72, 142, 255, 192, 27, 39, 29, 228, 133, 130, 186, 162>>,
   <<151, 100, 183, 83, 60, 184, 187, 160, 132, 129, 167, 21, 131, 130, 7, 227>>,
   <<90, 2, 11, 97, 116, 97, 204, 84, 108, 34, 215, 178, 4, 250, 16, 84>>,
   <<61, 37, 224, 70, 221, 37, 93, 130, 87, 58, 158, 80, 96, 112, 37, 234>>,
   <<76, 136, 7, 127, 16, 104, 0, 231, 93, 254, 93, 168, 129, 219, 225, 242>>,
   <<168, 175, 88, 221, 228, 197, 215, 69, 198, 244, 239, 194, 53, 85, 165, 118>>,
   <<51, 245, 36, 103, 16, 71, 82, 137, 15, 15, 130, 231, 180, 117, 156, 106>>,
   <<129, 211, 71, 131, 59, 103, 160, 112, 233, 174, 18, 205, 181, 63, 1, 144>>,
   <<77, 153, 108, 245, 154, 50, 17, 207, 83, 202, 208, 10, 178, 253, 98, 108>>,
   <<25, 134, 253, 203, 164, 25, 84, 163, 141, 53, 140, 133, 254, 135, 236, 100>>,
   <<24, 5, 190, 200, 102, 228, 46, 239, 189, 215, 18, 180, 102, 101, 130, 215>>,
   <<94, 105, 4, 9, 39, 216, 121, 109, 15, 213, 18, 210, 233, 66, 18, 91>>,
   <<87, 112, 237, 143, 131, 143, 22, 64, 22, 90, 40, 188, 183, 13, 42, 77>>,
   <<3, 204, 148, 250, 181, 104, 245, 142, 251, 203, 16, 173, 65, 129, 18, 43>>,
   <<78, 192, 63, 249, 244, 219, 169, 250, 199, 215, 43, 160, 62, 234, 241, 18>>,
   <<183, 81, 32, 130, 133, 106, 38, 160, 200, 79, 53, 155, 84, 72, 100, 181>>,
   <<21, 206, 135, 181, 151, 129, 50, 0, 110, 128, 22, 126, 186, 204, 24, 195>>,
   <<159, 234, 140, 155, 1, 169, 7, 225, 2, 148, 114, 136, 251, 49, 56, 87>>,
   <<118, 109, 115, 100, 24, 36, 85, 108, 68, 201, 0, 221, 17, 53, 88, 201>>,
   <<80, 23, 32, 81, 46, 115, 158, 5, 204, 186, 177, 63, 255, 38, 253, 205>>,
   <<212, 197, 90, 234, 240, 190, 81, 115, 56, 156, 38, 57, 155, 164, 11, 173>>,
   <<181, 233, 147, 32, 220, 115, 19, 46, 77, 247, 73, 100, 183, 223, 75, 78>>,
   <<245, 137, 178, 235, 84, 86, 30, 96, 54, 154, 222, 92, 167, 56, 248, 243>>,
   <<189, 59, 164, 113, 175, 169, 61, 175, 16, 205, 65, 143, 121, 100, 129, 189>>,
   <<238, 140, 106, 185, 126, 236, 52, 10, 77, 98, 39, 180, 139, 63, 171, 58>>,
   <<171, 187, 96, 218, 250, 97, 161, 53, 82, 206, 140, 209, 33, 33, 188, 81>>,
   <<18, 241, 158, 182, 43, 100, 236, 1, 153, 5, 61, 218, 181, 255, 206, 113>>,
   <<181, 21, 155, 219, 52, 136, 230, 55, 240, 230, 156, 195, 249, 26, 132, 101>>,
   <<54, 200, 211, 155, 250, 156, 23, 98, 124, 81, 133, 217, 122, 117, 141, 131>>,
   <<9, 147, 224, 17, 45, 93, 140, 82, 244, 252, 28, 162, 95, 97, 252, 143>>,
   <<111, 243, 141, 76, 129, 91, 28, 199, 191, 36, 83, 99, 141, 106, 43, 237>>,
   <<119, 106, 193, 95, 110, 18, 14, 161, 85, 160, 39, 246, 187, 172, 245, 209>>,
   <<87, 243, 89, 80, 212, 20, 220, 45, 150, 84, 14, 93, 201, 89, 78, 103>>,
   <<184, 149, 201, 16, 125, 181, 168, 90, 16, 201, 200, 194, 221, 136, 201, 178>>,
   <<115, 123, 2, 107, 152, 140, 2, 1, 131, 46, 31, 111, 187, 109, 185, 164>>,
   <<69, 155, 97, 179, 213, 180, 227, 222, 83, 80, 160, 101, 48, 146, 63, 42>>,
   <<196, 236, 140, 103, 244, 122, 45, 213, 145, 119, 125, 23, 130, 193, 135, 144>>,
   <<243, 165, 150, 247, 8, 240, 58, 228, 101, 116, 173, 184, 225, 160, 205, 178>>,
   <<188, 226, 64, 34, 111, 210, 246, 159, 9, 211, 140, 149, 141, 134, 198, 231>>,
   <<204, 31, 119, 38, 160, 47, 143, 243, 204, 57, 255, 101, 18, 76, 54, 100>>,
   <<12, 38, 151, 54, 78, 119, 206, 12, 99, 248, 57, 129, 103, 218, 78, 86>>,
   <<94, 216, 69, 235, 70, 131, 160, 23, 92, 15, 70, 64, 177, 69, 131, 80>>,
   <<236, 239, 162, 136, 214, 23, 208, 189, 68, 11, 200, 3, 142, 105, 87, 227>>,
   <<32, 236, 13, 141, 209, 33, 252, 69, 47, 22, 226, 116, 73, 51, 188, 205>>,
   <<163, 231, 161, 157, 48, 146, 89, 126, 133, 39, 23, 194, 128, 47, 155, 113>>,
   <<242, 167, 28, 114, 133, 20, 126, 220, 149, 101, 230, 77, 74, 177, 85, 90>>,
   <<151, 167, 23, 171, 98, 122, 204, 85, 53, 181, 223, 183, 138, 0, 249, 11>>,
   <<21, 232, 139, 40, 42, 125, 125, 55, 149, 10, 49, 225, 210, 235, 106, 60>>,
   <<46, 69, 128, 114, 105, 206, 169, 223, 226, 122, 50, 28, 38, 6, 229, 147>>,
   <<186, 194, 248, 71, 202, 182, 128, 41, 216, 146, 54, 239, 3, 56, 62, 55>>,
   <<140, 180, 4, 47, 244, 237, 156, 30, 39, 192, 254, 123, 210, 226, 22, 2>>,
   <<146, 9, 94, 199, 206, 167, 103, 217, 115, 45, 65, 177, 39, 223, 26, 35>>,
   <<33, 28, 86, 47, 181, 16, 123, 34, 41, 63, 122, 94, 230, 53, 47, 103>>,
   <<139, 66, 145, 218, 138, 170, 157, 11, 164, 87, 4, 28, 48, 24, 221, 208>>,
   <<98, 48, 172, 54, 223, 69, 220, 25, 54, 145, 206, 33, 128, 24, 1, 5>>,
   <<87, 135, 147, 99, 3, 171, 158, 81, 196, 102, 74, 160, 55, 254, 108, 206>>,
   <<229, 22, 51, 212, 170, 12, 203, 38, 227, 3, 146, 160, 174, 100, 101, 158>>,
   <<156, 226, 211, 51, 201, 157, 208, 26, 26, 196, 56, 47, 207, 174, 230, 12>>,
   <<48, 135, 176, 30, 190, 179, 238, 38, 165, 128, 6, 81, 247, 41, 229, 59>>,
   <<175, 86, 149, 59, 184, 3, 19, 199, 33, 56, 164, 93, 159, 96, 15, 64>>,
   <<107, 47, 64, 11, 54, 91, 170, 122, 134, 33, 89, 115, 79, 201, 225, 226>>,
   <<255, 70, 152, 79, 31, 11, 116, 241, 142, 128, 255, 31, 204, 240, 61, 78>>,
   <<195, 72, 139, 121, 162, 128, 191, 76, 61, 92, 252, 24, 172, 93, 201, 118>>,
   <<103, 46, 189, 40, 127, 4, 221, 100, 148, 185, 39, 183, 169, 166, 114, 151>>,
   <<94, 64, 245, 51, 153, 154, 176, 80, 85, 169, 160, 123, 45, 231, 106, 90>>,
   <<95, 168, 133, 169, 69, 107, 168, 111, 68, 150, 97, 32, 161, 169, 220, 204>>,
   <<108, 136, 75, 41, 199, 101, 20, 74, 198, 133, 121, 252, 245, 194, 13, 151>>,
   <<9, 213, 101, 48, 203, 58, 62, 71, 84, 128, 24, 246, 55, 42, 159, 201>>,
   <<216, 45, 107, 22, 202, 184, 57, 19, 84, 165, 198, 41, 40, 114, 171, 85>>,
   <<96, 183, 182, 49, 205, 26, 104, 212, 158, 189, 212, 75, 96, 2, 108, 38>>,
   <<117, 220, 239, 208, 85, 229, 203, 242, 199, 97, 165, 201, 245, 82, 235, 163>>,
   <<33, 172, 99, 76, 114, 197, 84, 163, 228, 57, 197, 50, 98, 127, 4, 38>>,
   <<3, 230, 233, 64, 111, 35, 232, 224, 23, 61, 134, 249, 246, 109, 124, 149>>,
   <<221, 149, 199, 52, 245, 83, 23, 153, 13, 56, 18, 239, 127, 136, 73, 115>>,
   <<80, 249, 109, 39, 128, 23, 223, 49, 199, 181, 242, 226, 30, 66, 77, 10>>,
   <<121, 19, 229, 145, 234, 174, 138, 198, 213, 69, 223, 34, 205, 102, 245, 201>>,
   <<227, 31, 151, 94, 134, 199, 213, 254, 11, 107, 29, 44, 223, 203, 53, 191>>,
   <<7, 237, 144, 17, 198, 62, 173, 55, 94, 184, 160, 56, 26, 188, 44, 15>>,
   <<116, 190, 120, 186, 101, 216, 114, 239, 11, 67, 51, 229, 58, 207, 119, 204>>,
   <<5, 21, 187, 125, 141, 145, 166, 192, 178, 196, 193, 249, 220, 154, 74, 73>>,
   <<231, 52, 126, 90, 163, 82, 77, 55, 130, 38, 14, 186, 220, 214, 181, 209>>,
   <<231, 192, 245, 31, 236, 202, 247, 239, 146, 184, 70, 190, 48, 1, 123, 211>>,
   <<157, 111, 109, 99, 67, 163, 96, 151, 66, 160, 143, 18, 147, 164, 52, 108>>,
   <<254, 190, 240, 171, 28, 81, 221, 132, 30, 59, 146, 236, 57, 64, 87, 27>>,
   <<120, 110, 244, 222, 212, 25, 122, 138, 232, 151, 82, 237, 195, 155, 128, 124>>,
   <<149, 191, 77, 9, 244, 251, 34, 254, 200, 242, 159, 188, 221, 206, 4, 52>>,
   <<59, 236, 170, 9, 28, 20, 103, 30, 136, 186, 150, 95, 81, 19, 117, 172>>,
   <<156, 178, 158, 17, 148, 158, 50, 132, 52, 7, 180, 180, 29, 14, 169, 29>>,
   <<136, 40, 144, 120, 132, 210, 95, 0, 179, 49, 248, 242, 85, 1, 212, 52>>,
   <<151, 27, 249, 192, 71, 132, 221, 246, 23, 183, 174, 96, 14, 43, 27, 138>>,
   <<134, 102, 188, 38, 252, 5, 240, 244, 246, 46, 142, 114, 207, 83, 24, 104>>,
   <<214, 223, 174, 167, 108, 143, 90, 195, 233, 110, 114, 117, 111, 62, 149, 225>>,
   <<218, 123, 239, 84, 249, 46, 160, 177, 250, 130, 9, 83, 125, 41, 32, 57>>,
   <<2, 196, 187, 160, 81, 218, 141, 224, 162, 180, 41, 102, 1, 129, 205, 50>>,
   <<191, 61, 25, 240, 147, 234, 221, 105, 207, 242, 47, 101, 73, 63, 42, 168>>,
   <<237, 100, 71, 46, 222, 26, 233, 30, 127, 87, 91, 139, 107, 138, 159, 154>>,
   <<62, 109, 234, 44, 75, 163, 155, 142, 77, 82, 38, 25, 84, 241, 103, 90>>,
   <<194, 126, 191, 238, 189, 42, 1, 103, 97, 204, 237, 214, 186, 22, 150, 161>>,
   <<192, 252, 184, 96, 255, 0, 173, 219, 194, 154, 120, 238, 15, 165, 7, 110>>,
   <<65, 129, 105, 106, 143, 229, 124, 230, 23, 125, 97, 247, 59, 218, 193, 200>>,
   <<162, 40, 151, 119, 48, 102, 243, 98, 6, 218, 113, 238, 69, 34, 160, 14>>,
   <<47, 167, 189, 198, 15, 182, 99, 45, 34, 167, 162, 153, 240, 149, 184, 138>>,
   <<143, 101, 77, 11, 18, 231, 164, 207, 122, 29, 198, 56, 154, 112, 184, 172>>,
   <<203, 112, 206, 11, 251, 39, 149, 138, 14, 158, 88, 34, 149, 215, 244, 190>>,
   <<41, 250, 107, 20, 10, 227, 178, 95, 244, 10, 221, 156, 46, 41, 124, 91>>,
   <<85, 20, 134, 8, 106, 231, 36, 43, 181, 253, 157, 230, 86, 224, 116, 113>>,
   <<150, 212, 92, 211, 78, 127, 74, 153, 149, 40, 5, 23, 39, 26, 220, 34>>,
   <<151, 22, 194, 26, 94, 146, 148, 150, 218, 196, 73, 65, 148, 253, 23, 187>>,
   <<214, 175, 176, 187, 183, 180, 146, 111, 89, 2, 18, 193, 106, 170, 91, 154>>,
   <<25, 185, 103, 208, 90, 34, 237, 123, 81, 38, 180, 154, 124, 113, 86, 91>>,
   <<235, 208, 52, 40, 253, 242, 251, 41, 137, 6, 0, 136, 10, 44, 136, 34>>,
   <<30, 155, 10, 105, 143, 97, 224, 124, 105, 178, 94, 29, 143, 21, 3, 218>>,
   <<237, 147, 35, 42, 253, 81, 209, 140, 196, 52, 177, 83, 247, 51, 165, 19>>,
   <<252, 196, 4, 25, 36, 54, 252, 203, 98, 62, 10, 214, 64, 71, 122, 24>>,
   <<83, 154, 29, 30, 176, 36, 83, 204, 167, 231, 67, 209, 218, 178, 5, 110>>,
   <<105, 124, 83, 180, 156, 180, 108, 161, 173, 161, 77, 153, 231, 221, 146, 98>>,
   <<158, 40, 55, 20, 114, 168, 209, 96, 207, 77, 215, 235, 35, 88, 228, 81>>,
   <<253, 182, 124, 137, 203, 2, 218, 17, 96, 0, 172, 14, 148, 248, 246, 42>>,
   <<175, 117, 170, 85, 180, 85, 74, 81, 153, 184, 105, 88, 106, 30, 204, 216>>,
   <<55, 172, 208, 133, 211, 160, 134, 77, 30, 124, 127, 37, 45, 94, 96, 140>>,
   <<186, 233, 66, 193, 246, 74, 206, 48, 154, 62, 1, 75, 70, 73, 168, 96>>,
   <<116, 110, 67, 100, 150, 193, 47, 118, 236, 141, 55, 34, 114, 99, 64, 49>>,
   <<67, 27, 35, 139, 225, 20, 177, 1, 207, 186, 226, 62, 43, 118, 36, 154>>,
   <<224, 95, 246, 125, 152, 70, 62, 177, 243, 210, 135, 224, 230, 39, 31, 8>>,
   <<10, 22, 228, 116, 184, 127, 185, 50, 185, 244, 4, 233, 131, 101, 80, 112>>,
   <<13, 76, 92, 70, 251, 170, 12, 82, 65, 35, 133, 221, 46, 49, 19, 44>>,
   <<229, 162, 61, 149, 30, 224, 113, 55, 10, 202, 122, 94, 240, 175, 52, 123>>,
   <<99, 116, 105, 146, 238, 63, 147, 161, 101, 96, 94, 133, 243, 20, 179, 65>>,
   <<12, 152, 25, 76, 203, 140, 216, 91, 3, 96, 171, 77, 161, 120, 177, 248>>,
   <<224, 169, 145, 25, 72, 164, 157, 94, 249, 175, 30, 139, 238, 124, 32, 135>>,
   <<10, 213, 116, 60, 19, 175, 176, 187, 191, 193, 17, 25, 221, 247, 37, 27>>,
   <<98, 238, 154, 158, 137, 245, 17, 184, 227, 179, 99, 201, 45, 146, 189, 9>>,
   <<37, 242, 115, 94, 149, 187, 138, 193, 252, 137, 87, 73, 65, 138, 226, 89>>,
   <<84, 98, 213, 45, 102, 5, 2, 98, 14, 56, 155, 249, 191, 60, 19, 30>>,
   <<68, 216, 255, 72, 75, 119, 8, 87, 79, 245, 199, 159, 141, 221, 227, 216>>,
   <<69, 242, 109, 3, 47, 247, 210, 130, 152, 101, 51, 99, 78, 0, 1, 173>>,
   <<209, 41, 226, 66, 203, 249, 54, 23, 69, 114, 181, 167, 25, 146, 76, 146>>,
   <<67, 90, 227, 224, 247, 89, 93, 165, 92, 51, 113, 115, 116, 80, 187, 38>>,
   <<217, 128, 185, 53, 131, 117, 53, 181, 144, 47, 170, 28, 116, 226, 134, 129>>,
   <<157, 91, 192, 140, 90, 167, 255, 195, 56, 55, 23, 32, 239, 231, 40, 119>>,
   <<65, 247, 65, 0, 125, 4, 109, 52, 79, 133, 126, 121, 105, 114, 34, 222>>,
   <<95, 251, 88, 82, 220, 218, 236, 220, 127, 175, 227, 29, 136, 153, 152, 42>>,
   <<20, 69, 136, 206, 236, 82, 137, 189, 127, 52, 13, 46, 154, 157, 149, 75>>,
   <<146, 166, 192, 67, 115, 196, 112, 24, 80, 72, 49, 132, 133, 106, 136, 232>>,
   <<171, 27, 61, 51, 251, 49, 108, 226, 176, 136, 175, 47, 100, 215, 212, 192>>,
   <<77, 25, 185, 22, 241, 254, 153, 189, 221, 134, 246, 223, 115, 215, 198, 85>>,
   <<106, 66, 28, 94, 242, 79, 84, 130, 62, 198, 18, 48, 37, 71, 156, 74>>,
   <<135, 16, 252, 118, 166, 214, 195, 20, 188, 73, 248, 225, 123, 4, 39, 120>>,
   <<150, 198, 61, 111, 250, 38, 74, 171, 38, 160, 22, 81, 112, 133, 148, 231>>,
   <<21, 183, 5, 208, 158, 30, 158, 45, 211, 126, 81, 103, 8, 188, 70, 170>>,
   <<65, 58, 59, 138, 74, 156, 109, 249, 72, 25, 223, 30, 201, 199, 167, 155>>,
   <<205, 78, 48, 113, 18, 147, 38, 77, 144, 117, 176, 98, 239, 246, 145, 114>>,
   <<189, 247, 252, 246, 248, 160, 200, 159, 64, 12, 129, 124, 56, 34, 24, 95>>,
   <<136, 161, 96, 129, 165, 248, 196, 39, 149, 157, 155, 24, 72, 108, 255, 245>>,
   <<217, 38, 114, 115, 183, 151, 86, 105, 208, 243, 38, 34, 35, 63, 136, 217>>,
   <<44, 60, 44, 255, 42, 8, 83, 128, 31, 35, 72, 100, 143, 91, 151, 145>>,
   <<154, 127, 23, 162, 88, 57, 76, 116, 242, 83, 216, 39, 213, 87, 241, 103>>,
   <<111, 100, 157, 190, 140, 88, 64, 143, 106, 188, 74, 250, 40, 162, 4, 50>>,
   <<30, 139, 32, 45, 123, 176, 197, 130, 15, 243, 68, 122, 44, 92, 78, 24>>,
   <<164, 121, 82, 78, 126, 142, 92, 111, 230, 120, 55, 98, 95, 8, 43, 239>>,
   <<155, 160, 227, 177, 209, 49, 19, 232, 31, 204, 14, 178, 187, 129, 200, 243>>,
   <<121, 203, 146, 251, 122, 97, 191, 113, 154, 44, 203, 15, 28, 173, 112, 164>>,
   <<148, 118, 206, 169, 17, 97, 101, 105, 241, 200, 85, 212, 37, 203, 14, 147>>,
   <<54, 116, 99, 17, 73, 78, 144, 124, 135, 122, 160, 88, 214, 48, 214, 241>>,
   <<165, 68, 201, 212, 219, 68, 143, 214, 214, 255, 226, 19, 21, 153, 42, 72>>,
   <<26, 0, 151, 231, 46, 20, 161, 221, 87, 101, 183, 216, 78, 201, 50, 206>>,
   <<47, 95, 122, 125, 98, 48, 16, 224, 24, 240, 168, 176, 208, 79, 255, 241>>,
   <<137, 231, 35, 122, 50, 253, 0, 112, 97, 84, 179, 73, 133, 46, 232, 49>>,
   <<76, 103, 56, 244, 216, 124, 204, 165, 73, 0, 78, 3, 213, 27, 238, 255>>,
   <<156, 53, 109, 62, 153, 150, 99, 128, 164, 226, 16, 167, 40, 255, 225, 131>> >>

\* crate::md4::md4, on the byte strings of the model: the short ones and the
\* rotations of LongBlock
md4(data) ==
    IF Len(data) = Len(LongBlock)
    THEN LET j == Len(data) - (CHOOSE i \in 1..Len(data) : data[i] = 1)
         IN  IF data = RotateLeft(LongBlock, j) THEN Md4LongDigests[j + 1]
             ELSE Md4Digests[data]
    ELSE Md4Digests[data]

\* blake3::mod::blake3
blake3(data) == Blake3Digests[data]

\* md4_many: every block paired with its digest, in order
md4_many(datas) == [i \in 1..Len(datas) |-> <<datas[i], md4(datas[i])>>]

\* Blake3Iterator::next that takes the blocks from the back of the iterator
Blake3Iterator_next_back(inner) ==
    [item  |-> <<inner[Len(inner)], blake3(inner[Len(inner)])>>,
     inner |-> SubSeq(inner, 1, Len(inner) - 1)]

\* Blake3Iterator::next on an inner iterator that has blocks left:
\* self.inner.next().map(|data| (data, blake3(data)))
Blake3Iterator_next(inner) ==
    [item  |-> <<Head(inner), blake3(Head(inner))>>,
     inner |-> Tail(inner)]

RECURSIVE blake3_many(_)
\* blake3_many, collected: the items Blake3Iterator yields until its inner
\* iterator is exhausted
blake3_many(datas) ==
    IF datas = <<>> THEN <<>>
    ELSE LET n == Blake3Iterator_next(datas)
         IN  <<n.item>> \o blake3_many(n.inner)

(***************************************************************************)
(* src/src/signature.rs                                                    *)
(***************************************************************************)
SignatureType_SIZE == 4

\* from_magic without the arm of the reserved BLAKE2 magic
from_magic_no_blake2(bytes) ==
    LET magic == from_be_bytes(bytes)
    IN  IF magic = MD4_MAGIC THEN "Md4"
        ELSE IF magic = BLAKE3_MAGIC THEN "Blake3"
        ELSE "None"

\* SignatureType::from_magic; "None" stands for Option::None
from_magic(bytes) ==
    LET magic == from_be_bytes(bytes)
    IN  IF magic = BLAKE2_MAGIC THEN "Blake2"
        ELSE IF magic = MD4_MAGIC THEN "Md4"
        ELSE IF magic = BLAKE3_MAGIC THEN "Blake3"
        ELSE "None"

\* SignatureType::to_magic
to_magic(signature_type) ==
    to_be_bytes(CASE signature_type = "Md4" -> MD4_MAGIC
                  [] signature_type = "Blake2" -> BLAKE2_MAGIC
                  [] signature_type = "Blake3" -> BLAKE3_MAGIC,
                SignatureType_SIZE)

\* HashAlgorithm::to_signature_type
to_signature_type(hash_algorithm) ==
    IF hash_algorithm = "Md4" THEN "Md4" ELSE "Blake3"

\* HashAlgorithm::max_hash_size
max_hash_size(hash_algorithm) ==
    IF hash_algorithm = "Md4" THEN MD4_SIZE ELSE BLAKE3_SIZE

\* Signature::HEADER_SIZE: magic, block_size, then crypto_hash_size
HEADER_SIZE == SignatureType_SIZE + 2 * 4

\* buf.chunks_exact(n): the full blocks of buf, in order (n > 0)
chunks_exact(buf, n) ==
    [i \in 1..(Len(buf) \div n) |-> SubSeq(buf, (i - 1) * n + 1, i * n)]

\* ChunksExact::remainder: what is left after the full blocks
remainder(buf, n) ==
    SubSeq(buf, (Len(buf) \div n) * n + 1, Len(buf))

\* buf.chunks(n): the blocks of buf, the last one possibly shorter (n > 0)
chunks(buf, n) ==
    [i \in 1..((Len(buf) + n - 1) \div n) |->
        SubSeq(buf, (i - 1) * n + 1, Min(i * n, Len(buf)))]

\* the assertions with the second one strict
calculate_asserts_strict(options) ==
    /\ options.block_size > 0
    /\ options.crypto_hash_size < max_hash_size(options.hash_algorithm)

\* the two assertions Signature::calculate opens with
calculate_asserts(options) ==
    /\ options.block_size > 0
    /\ options.crypto_hash_size <= max_hash_size(options.hash_algorithm)

\* the (block, digest) pairs Signature::calculate iterates over: the full
\* blocks hashed by *_many, chained with the short last block if there is one
hashed_blocks(buf, options) ==
    LET full == chunks_exact(buf, options.block_size)
        rest == remainder(buf, options.block_size)
    IN  IF options.hash_algorithm = "Md4"
        THEN md4_many(full) \o (IF rest = <<>> THEN <<>> ELSE <<(<<rest, md4(rest)>>)>>)
        ELSE blake3_many(full) \o (IF rest = <<>> THEN <<>> ELSE <<(<<rest, blake3(rest)>>)>>)

\* Signature::calculate, for options that pass its assertions
calculate(buf, options) ==
    LET pairs == hashed_blocks(buf, options)
        entry(p) == CrcToBytes(CrcUpdate(CrcNew, p[1]))
                    \o SubSeq(p[2], 1, options.crypto_hash_size)
    IN  [signature_type   |-> to_signature_type(options.hash_algorithm),
         block_size       |-> options.block_size,
         crypto_hash_size |-> options.crypto_hash_size,
         signature        |->
             to_magic(to_signature_type(options.hash_algorithm))
             \o to_be_bytes(options.block_size, 4)
             \o to_be_bytes(options.crypto_hash_size, 4)
             \o Flatten([i \in 1..Len(pairs) |-> entry(pairs[i])])]

\* what deserialize returns on a blob it refuses
ParseError == [ok |-> FALSE]

\* deserialize reading crypto_hash_size before block_size
deserialize_swapped(signature) ==
    IF Len(signature) < HEADER_SIZE THEN ParseError
    ELSE LET signature_type == from_magic(SubSeq(signature, 1, 4))
             block_size == from_be_bytes(SubSeq(signature, 9, 12))
             crypto_hash_size == from_be_bytes(SubSeq(signature, 5, 8))
             block_signature_size == Crc_SIZE + crypto_hash_size
         IN  IF signature_type = "None" THEN ParseError
             ELSE IF (Len(signature) - HEADER_SIZE) % block_signature_size # 0
                  THEN ParseError
             ELSE [ok |-> TRUE,
                   sig |-> [signature_type   |-> signature_type,
                            block_size       |-> block_size,
                            crypto_hash_size |-> crypto_hash_size,
                            signature        |-> signature]]

\* Signature::deserialize
deserialize(signature) ==
    IF Len(signature) < HEADER_SIZE THEN ParseError
    ELSE LET signature_type == from_magic(SubSeq(signature, 1, 4))
             block_size == from_be_bytes(SubSeq(signature, 5, 8))
             crypto_hash_size == from_be_bytes(SubSeq(signature, 9, 12))
             block_signature_size == Crc_SIZE + crypto_hash_size
         IN  IF signature_type = "None" THEN ParseError
             ELSE IF (Len(signature) - HEADER_SIZE) % block_signature_size # 0
                  THEN ParseError
             ELSE [ok |-> TRUE,
                   sig |-> [signature_type   |-> signature_type,
                            block_size       |-> block_size,
                            crypto_hash_size |-> crypto_hash_size,
                            signature        |-> signature]]

\* Signature::blocks: the (crc, strong prefix) pairs of the body, in order
blocks(sig) ==
    LET body == SubSeq(sig.signature, HEADER_SIZE + 1, Len(sig.signature))
        recs == chunks(body, Crc_SIZE + sig.crypto_hash_size)
    IN  [i \in 1..Len(recs) |->
            <<CrcFromBytes(SubSeq(recs[i], 1, Crc_SIZE)),
              SubSeq(recs[i], Crc_SIZE + 1, Len(recs[i]))>>]

(***************************************************************************)
(* crate::hashmap_variant::SecondLayerMap (section 4.6): a map from strong *)
(* prefix to block index; a second insertion of a key replaces its value.  *)
(***************************************************************************)
EmptyMap == <<>>

SecondLayerInsert(map, key, val) ==
    [k \in (DOMAIN map) \cup {key} |-> IF k = key THEN val ELSE map[k]]

SecondLayerGet(map, key) ==
    IF key \in DOMAIN map THEN map[key] ELSE -1

\* the insertion with block indices counted from 1
index_insert_from_one(block_index, crc, crypto_hash, idx) ==
    LET inner == IF crc \in DOMAIN block_index THEN block_index[crc] ELSE EmptyMap
    IN  [c \in (DOMAIN block_index) \cup {crc} |->
            IF c = crc THEN SecondLayerInsert(inner, crypto_hash, idx + 1)
            ELSE block_index[c]]

\* block_index.entry(crc).or_default().insert(crypto_hash, idx)
index_insert(block_index, crc, crypto_hash, idx) ==
    LET inner == IF crc \in DOMAIN block_index THEN block_index[crc] ELSE EmptyMap
    IN  [c \in (DOMAIN block_index) \cup {crc} |->
            IF c = crc THEN SecondLayerInsert(inner, crypto_hash, idx)
            ELSE block_index[c]]

RECURSIVE index_fold(_, _, _)
\* the loop of Signature::index over blocks.enumerate(), idx counted from 0
index_fold(block_index, blks, n) ==
    IF n > Len(blks) THEN block_index
    ELSE index_fold(index_insert(block_index, blks[n][1], blks[n][2], n - 1),
                    blks, n + 1)

\* Signature::index
index(sig) ==
    [signature_type   |-> sig.signature_type,
     block_size       |-> sig.block_size,
     crypto_hash_size |-> sig.crypto_hash_size,
     blocks           |-> index_fold(EmptyMap, blocks(sig), 1)]

(***************************************************************************)
(* src/src/diff.rs: the instruction encoders.  Each returns the sequence   *)
(* of buffers it hands to out.write_all, in order.                         *)
(***************************************************************************)
\* insert_command with the short opcode computed as RS_OP_LITERAL_1 + len
insert_command_off_by_one(len) ==
    IF len = 0 THEN "panic"
    ELSE IF len <= 64 THEN << <<RS_OP_LITERAL_1 + len>> >>
    ELSE IF len <= U8_MAX THEN << <<RS_OP_LITERAL_N1, len>> >>
    ELSE IF len <= U16_MAX THEN << <<RS_OP_LITERAL_N2>> \o to_be_bytes(len, 2) >>
    ELSE IF len \div 65536 <= U16_MAX
    THEN << <<RS_OP_LITERAL_N4>> \o to_be_bytes(len, 4) >>
    ELSE << <<RS_OP_LITERAL_N8>> \o to_be_bytes(len, 8) >>

\* insert_command: "panic" when assert!(len != 0) fails, with nothing written;
\* otherwise its one write.  emit calls it with the length of a non-empty
\* slice only.  len <= u32::MAX is written len \div 2^16 <= u16::MAX.
insert_command(len) ==
    IF len = 0 THEN "panic"
    ELSE IF len <= 64 THEN << <<RS_OP_LITERAL_1 + (len - 1)>> >>
    ELSE IF len <= U8_MAX THEN << <<RS_OP_LITERAL_N1, len>> >>
    ELSE IF len <= U16_MAX THEN << <<RS_OP_LITERAL_N2>> \o to_be_bytes(len, 2) >>
    ELSE IF len \div 65536 <= U16_MAX
    THEN << <<RS_OP_LITERAL_N4>> \o to_be_bytes(len, 4) >>
    ELSE << <<RS_OP_LITERAL_N8>> \o to_be_bytes(len, 8) >>

\* copy_command::u64_size_class
u64_size_class(val) ==
    IF val <= U8_MAX THEN 0
    ELSE IF val <= U16_MAX THEN 1
    ELSE IF val \div 65536 <= U16_MAX THEN 2
    ELSE 3

\* copy_command::size_class_marker
size_class_marker(offset, len) ==
    RS_OP_COPY_N1_N1 + u64_size_class(offset) * 4 + u64_size_class(len)

\* copy_command::write_varint
write_varint(val) ==
    IF val <= U8_MAX THEN <<val>>
    ELSE IF val <= U16_MAX THEN to_be_bytes(val, 2)
    ELSE IF val \div 65536 <= U16_MAX THEN to_be_bytes(val, 4)
    ELSE to_be_bytes(val, 8)

\* copy_command: the marker, the offset, the length
copy_command(offset, len) ==
    << <<size_class_marker(offset, len)>>, write_varint(offset), write_varint(len) >>

(***************************************************************************)
(* OutputState.  queued_copy is None or <<offset, len>>.  emit and copy    *)
(* return the new state and the buffers written.                           *)
(***************************************************************************)
None == <<>>

NewOutputState == [emitted |-> 0, queued_copy |-> None]

\* emit with `self.emitted = len` in the place of `self.emitted += len`
emit_assign_emitted(state, until, data) ==
    IF state.emitted = until THEN [state |-> state, writes |-> <<>>]
    ELSE LET queued  == state.queued_copy # None
             flushed == IF queued THEN state.queued_copy[2] ELSE state.emitted
             w_copy  == IF queued
                        THEN copy_command(state.queued_copy[1], state.queued_copy[2])
                        ELSE <<>>
             to_emit == SubSeq(data, flushed + 1, until)
         IN  IF flushed < until
             THEN [state  |-> [emitted |-> until, queued_copy |-> state.queued_copy],
                   writes |-> w_copy \o insert_command(Len(to_emit)) \o <<to_emit>>]
             ELSE [state  |-> [emitted |-> flushed, queued_copy |-> state.queued_copy],
                   writes |-> w_copy]

\* emit that writes the queued copy without advancing `emitted` past it
emit_no_advance(state, until, data) ==
    IF state.emitted = until THEN [state |-> state, writes |-> <<>>]
    ELSE LET w_copy  == IF state.queued_copy # None
                        THEN copy_command(state.queued_copy[1], state.queued_copy[2])
                        ELSE <<>>
             to_emit == SubSeq(data, state.emitted + 1, until)
         IN  [state  |-> [emitted |-> until, queued_copy |-> state.queued_copy],
              writes |-> w_copy \o insert_command(Len(to_emit)) \o <<to_emit>>]

\* OutputState::emit
emit(state, until, data) ==
    IF state.emitted = until THEN [state |-> state, writes |-> <<>>]
    ELSE LET queued  == state.queued_copy # None
             flushed == IF queued THEN state.emitted + state.queued_copy[2]
                        ELSE state.emitted
             w_copy  == IF queued
                        THEN copy_command(state.queued_copy[1], state.queued_copy[2])
                        ELSE <<>>
             to_emit == SubSeq(data, flushed + 1, until)
         IN  IF flushed < until
             THEN [state  |-> [emitted |-> until, queued_copy |-> state.queued_copy],
                   writes |-> w_copy \o insert_command(Len(to_emit)) \o <<to_emit>>]
             ELSE [state  |-> [emitted |-> flushed, queued_copy |-> state.queued_copy],
                   writes |-> w_copy]

\* the test of copy without the comparison of the base offsets
extends_queued_any_offset(state, offset, here) ==
    /\ state.queued_copy # None
    /\ state.emitted + state.queued_copy[2] = here

\* the test of OutputState::copy: the new copy continues the queued one
extends_queued(state, offset, here) ==
    /\ state.queued_copy # None
    /\ state.emitted + state.queued_copy[2] = here
    /\ state.queued_copy[1] + state.queued_copy[2] = offset

\* OutputState::copy
copy(state, offset, len, here, data) ==
    IF extends_queued(state, offset, here)
    THEN [state  |-> [emitted     |-> state.emitted,
                      queued_copy |-> <<state.queued_copy[1], state.queued_copy[2] + len>>],
          writes |-> <<>>]
    ELSE LET e == emit(state, here, data)
         IN  [state  |-> [emitted |-> e.state.emitted, queued_copy |-> <<offset, len>>],
              writes |-> e.writes]

\* the pre-flight checks with every family but MD4 taken for BLAKE3
diff_preflight_no_family_check(signature) ==
    IF signature.signature_type = "Md4"
    THEN (IF signature.crypto_hash_size > MD4_SIZE THEN "InvalidSignature" ELSE "Ok")
    ELSE (IF signature.crypto_hash_size > BLAKE3_SIZE THEN "InvalidSignature" ELSE "Ok")

\* the pre-flight checks of diff: family and crypto_hash_size
diff_preflight(signature) ==
    IF signature.signature_type = "Md4"
    THEN (IF signature.crypto_hash_size > MD4_SIZE THEN "InvalidSignature" ELSE "Ok")
    ELSE IF signature.signature_type = "Blake3"
    THEN (IF signature.crypto_hash_size > BLAKE3_SIZE THEN "InvalidSignature" ELSE "Ok")
    ELSE "InvalidSignature"

\* the pre-flight checks of diff_parallel, taken when the family is not MD4
diff_parallel_preflight(signature) ==
    IF signature.signature_type = "Blake3"
    THEN (IF signature.crypto_hash_size > BLAKE3_SIZE THEN "InvalidSignature" ELSE "Ok")
    ELSE "InvalidSignature"

\* the blacklist test with is_none in the place of is_none_or
not_blacklisted_is_none(collisions, crc) ==
    crc \notin DOMAIN collisions

\* the blacklist test off by one
not_blacklisted_off_by_one(collisions, crc) ==
    \/ crc \notin DOMAIN collisions
    \/ collisions[crc] <= MAX_CRC_COLLISIONS

\* the blacklist test of diff: the crc has not collided MAX_CRC_COLLISIONS times
not_blacklisted(collisions, crc) ==
    \/ crc \notin DOMAIN collisions
    \/ collisions[crc] < MAX_CRC_COLLISIONS

\* the digest diff computes for a window
window_digest(signature_type, window) ==
    IF signature_type = "Md4" THEN md4(window) ELSE blake3(window)

\* signature.blocks.get(&crc) then blocks.get(&&digest[..crypto_hash_size]):
\* the block index, or -1 when there is none
lookup(signature, crc, window) ==
    IF crc \notin DOMAIN signature.blocks THEN -1
    ELSE SecondLayerGet(signature.blocks[crc],
                        SubSeq(window_digest(signature.signature_type, window),
                               1, signature.crypto_hash_size))

\* *collisions.entry(crc).or_insert(0) += 1
bump(collisions, crc) ==
    [c \in (DOMAIN collisions) \cup {crc} |->
        IF c = crc THEN (IF crc \in DOMAIN collisions THEN collisions[crc] ELSE 0) + 1
        ELSE collisions[c]]

\* the closure with the position in the target given as base offset
parallel_probe_start_offset(signature, data, start) ==
    LET block_size == signature.block_size
        block_data == SubSeq(data, start + 1, Min(start + block_size, Len(data)))
        idx        == lookup(signature, CrcUpdate(CrcNew, block_data), block_data)
    IN  IF idx # -1 THEN <<start, start, block_size>> ELSE None

\* the closure diff_parallel maps over the block-aligned starts: Some((start,
\* offset, len)) as <<start, offset, len>>, or None
parallel_probe(signature, data, start) ==
    LET block_size == signature.block_size
        end        == Min(start + block_size, Len(data))
        block_data == SubSeq(data, start + 1, end)
        idx        == lookup(signature, CrcUpdate(CrcNew, block_data), block_data)
    IN  IF idx # -1 THEN <<start, idx * block_size, block_size>> ELSE None

\* results of diff_parallel: one per start in
\* (0..data.len().saturating_sub(block_size - 1)).step_by(block_size)
parallel_results(signature, data) ==
    [i \in 1..(Len(data) \div signature.block_size) |->
        parallel_probe(signature, data, (i - 1) * signature.block_size)]

(***************************************************************************)
(* crate::apply (section 4.5, Applier; opcode table of section 6.3).       *)
(* decode reads the instructions of a delta body from position pos on:     *)
(* [status, instrs] with instrs a sequence of <<"COPY", offset, len>> and  *)
(* <<"LITERAL", payload>>.                                                 *)
(***************************************************************************)
RECURSIVE pow2(_)
pow2(n) == IF n = 0 THEN 1 ELSE 2 * pow2(n - 1)

RECURSIVE decode(_, _, _)
decode(delta, pos, instrs) ==
    IF pos > Len(delta) THEN [status |-> "UnexpectedEof", instrs |-> instrs]
    ELSE LET op == delta[pos] IN
      IF op = RS_OP_END THEN [status |-> "Ok", instrs |-> instrs]
      ELSE IF op < RS_OP_LITERAL_N1 THEN
        \* LITERAL_1 .. LITERAL_64: op payload bytes follow
        IF pos + op > Len(delta) THEN [status |-> "UnexpectedEof", instrs |-> instrs]
        ELSE decode(delta, pos + 1 + op,
                    Append(instrs, <<"LITERAL", SubSeq(delta, pos + 1, pos + op)>>))
      ELSE IF op <= RS_OP_LITERAL_N8 THEN
        LET w == pow2(op - RS_OP_LITERAL_N1) IN
        IF pos + w > Len(delta) THEN [status |-> "UnexpectedEof", instrs |-> instrs]
        ELSE LET l == from_be_bytes(SubSeq(delta, pos + 1, pos + w)) IN
             IF pos + w + l > Len(delta)
             THEN [status |-> "UnexpectedEof", instrs |-> instrs]
             ELSE decode(delta, pos + 1 + w + l,
                         Append(instrs, <<"LITERAL", SubSeq(delta, pos + w + 1, pos + w + l)>>))
      ELSE IF op < RS_OP_COPY_N1_N1 + 16 THEN
        LET wo == pow2((op - RS_OP_COPY_N1_N1) \div 4)
            wl == pow2((op - RS_OP_COPY_N1_N1) % 4)
        IN  IF pos + wo + wl > Len(delta)
            THEN [status |-> "UnexpectedEof", instrs |-> instrs]
            ELSE decode(delta, pos + 1 + wo + wl,
                        Append(instrs,
                               <<"COPY",
                                 from_be_bytes(SubSeq(delta, pos + 1, pos + wo)),
                                 from_be_bytes(SubSeq(delta, pos + wo + 1, pos + wo + wl))>>))
      ELSE [status |-> "UnknownCommand", instrs |-> instrs]

RECURSIVE execute(_, _, _, _)
\* run decoded instructions against base; a COPY past the end is OutOfBounds
execute(base_bytes, instrs, n, acc) ==
    IF n > Len(instrs) THEN [status |-> "Ok", out |-> acc]
    ELSE IF instrs[n][1] = "LITERAL"
         THEN execute(base_bytes, instrs, n + 1, acc \o instrs[n][2])
         ELSE IF instrs[n][2] + instrs[n][3] > Len(base_bytes)
              THEN [status |-> "OutOfBounds", out |-> acc]
              ELSE execute(base_bytes, instrs, n + 1,
                           acc \o SubSeq(base_bytes, instrs[n][2] + 1,
                                         instrs[n][2] + instrs[n][3]))

\* apply(base, delta, out)
apply(base_bytes, delta) ==
    IF Len(delta) < 4 \/ SubSeq(delta, 1, 4) # to_be_bytes(DELTA_MAGIC, 4)
    THEN [status |-> "WrongMagic", out |-> <<>>]
    ELSE LET d == decode(delta, 5, <<>>)
             x == execute(base_bytes, d.instrs, 1, <<>>)
         IN  IF x.status # "Ok" THEN x
             ELSE IF d.status # "Ok" THEN [status |-> d.status, out |-> x.out]
             ELSE x

(***************************************************************************)
(* Inputs of the exhaustive specification.                                 *)
(***************************************************************************)
HashAlgorithms == {"Md4", "Blake3"}

\* every block_size up to the bound, zero included; for each family the
\* crypto_hash_size values 0, 1, the family's maximum and one above it
Options ==
    UNION {[block_size : 0..MaxBlockSize,
            crypto_hash_size : {0, 1, max_hash_size(a), max_hash_size(a) + 1},
            hash_algorithm : {a}] : a \in HashAlgorithms}

Zeros(n) == [i \in 1..n |-> 0]

\* hand-made blobs for deserialize: every recognized magic and an unknown
\* one, block_size 0 or 2, crypto_hash_size 0, 17 or 33, a body of zero or
\* one all-zero records, optionally one stray byte; and cut-off headers
BlobMagics == {to_magic("Md4"), to_magic("Blake2"), to_magic("Blake3"), <<0, 0, 0, 0>>}

Blobs ==
    {m \o to_be_bytes(bs, 4) \o to_be_bytes(chs, 4) \o Zeros(n * (Crc_SIZE + chs) + pad) :
        m \in BlobMagics, bs \in {0, 2}, chs \in {0, MD4_SIZE + 1, BLAKE3_SIZE + 1},
        n \in {0, 1}, pad \in {0, 1}}
    \cup {SubSeq(to_magic("Md4") \o Zeros(8), 1, k) : k \in {0, 4, 11}}

(***************************************************************************)
(* State.                                                                  *)
(***************************************************************************)
VARIABLES
    source,      \* the buffer given to Signature::calculate, held as runs
    opts,        \* the options given to Signature::calculate
    calc,        \* its outcome: [status |-> "none" | "panic"] or [status |-> "ok", sig]
    blob,        \* the bytes given to Signature::deserialize
    parsed,      \* its outcome: [status |-> "none" | "error"] or [status |-> "ok", sig]
    indexed,     \* [status |-> "none"] or [status |-> "ok", signature: IndexedSignature]
    mode,        \* "none", "diff" or "diff_parallel": the function that is running
    input,       \* the target given to it, held as runs
    pc,          \* "idle", "outer", "inner", "stream" or "done"
    here,        \* diff: current position in data
    crc,         \* diff: rolling checksum of the window at here
    state,       \* OutputState
    collisions,  \* diff: crc -> number of failed strong-hash comparisons
    out,         \* the bytes the sink has accepted
    sink,        \* the sink: [fail_at, attempts, failed], see write_all
    result,      \* "none", "Ok", "InvalidSignature", "Io" or "panic"
    results,     \* diff_parallel: the collected Option<(start, offset, len)>
    ri,          \* diff_parallel: index of the next result to stream
    hashes,      \* history: crc -> strong hashes computed by diff for it
    late,        \* history: strong hashes computed for a crc already at the limit
    iter,        \* a Blake3Iterator: [started, given, inner, yielded]
    applied      \* outcome of apply(base, out): [status |-> "none"] or [status, out]

vars == <<source, opts, calc, blob, parsed, indexed, mode, input, pc, here, crc,
          state, collisions, out, sink, result, results, ri, hashes, late, applied>>

sigVars  == <<source, opts, calc, blob, parsed, indexed, iter>>
diffVars == <<mode, input, pc, here, crc, state, collisions, out, sink, result,
              results, ri, hashes, late>>

\* the buffer given to Signature::calculate, `buf: &[u8]`
base == Expand(source)

\* the target buffer, `data: &[u8]`
data == Expand(input)

(***************************************************************************)
(* The sink, `out: impl Write`.  It accepts every write_all, or it fails   *)
(* the fail_at-th one (fail_at = 0: it never fails), taking no byte of it. *)
(***************************************************************************)
NewSink(fail_at) == [fail_at |-> fail_at, attempts |-> 0, failed |-> FALSE]

\* out.write_all(buf) on the sink w = [sink, out]
write_all(w, buf) ==
    IF w.sink.attempts + 1 = w.sink.fail_at
    THEN [sink |-> [w.sink EXCEPT !.attempts = @ + 1, !.failed = TRUE], out |-> w.out]
    ELSE [sink |-> [w.sink EXCEPT !.attempts = @ + 1], out |-> w.out \o buf]

RECURSIVE try_writes_no_stop(_, _)
\* the writes of a step without the `?`: an error does not end the step
try_writes_no_stop(w, writes) ==
    IF writes = <<>> THEN w
    ELSE try_writes_no_stop(write_all(w, Head(writes)), Tail(writes))

RECURSIVE try_writes(_, _)
\* `out.write_all(..)?` for each buffer of a step, in order: the first error
\* ends the step
try_writes(w, writes) ==
    IF writes = <<>> \/ w.sink.failed THEN w
    ELSE try_writes(write_all(w, Head(writes)), Tail(writes))

\* a step hands `writes` to the sink snk
SinkFrom(snk, writes) ==
    LET w == try_writes([sink |-> snk, out |-> out], writes)
    IN  out' = w.out /\ sink' = w.sink

Sink(writes) == SinkFrom(sink, writes)

\* `?` on a failed write: diff returns Err(DiffError::Io(source))
IoError == pc' = "done" /\ result' = "Io"

NoIterator == [started |-> FALSE, given |-> <<>>, inner |-> <<>>, yielded |-> <<>>]

NoOptions == [block_size |-> 0, crypto_hash_size |-> 0, hash_algorithm |-> "Md4"]

Init ==
    /\ source = <<>>
    /\ opts = NoOptions
    /\ calc = [status |-> "none"]
    /\ blob = <<>>
    /\ parsed = [status |-> "none"]
    /\ indexed = [status |-> "none"]
    /\ mode = "none"
    /\ input = <<>>
    /\ pc = "idle"
    /\ here = 0
    /\ crc = CrcNew
    /\ state = NewOutputState
    /\ collisions = EmptyMap
    /\ out = <<>>
    /\ sink = NewSink(0)
    /\ result = "none"
    /\ results = <<>>
    /\ ri = 0
    /\ hashes = EmptyMap
    /\ late = 0
    /\ iter = NoIterator
    /\ applied = [status |-> "none"]

(***************************************************************************)
(* Signature::calculate, deserialize, index.                               *)
(***************************************************************************)
CalculateOn(bufs, optionss) ==
    /\ calc.status = "none"
    /\ parsed.status = "none"
    /\ \E buf \in bufs, options \in optionss :
          /\ source' = Whole(buf)
          /\ opts' = options
          /\ calc' = IF calculate_asserts(options)
                     THEN [status |-> "ok", sig |-> calculate(buf, options)]
                     ELSE [status |-> "panic"]
    /\ UNCHANGED <<blob, parsed, indexed, iter, applied>>
    /\ UNCHANGED diffVars

Calculate == CalculateOn(Buffers, Options)

DeserializeBytes(bytes) ==
    /\ blob' = bytes
    /\ parsed' = LET r == deserialize(bytes)
                 IN  IF r.ok THEN [status |-> "ok", sig |-> r.sig]
                     ELSE [status |-> "error"]
    /\ UNCHANGED <<source, opts, calc, indexed, iter, applied>>
    /\ UNCHANGED diffVars

\* deserialize on bytes that come from elsewhere
Deserialize ==
    /\ calc.status = "none"
    /\ parsed.status = "none"
    /\ \E bytes \in Blobs : DeserializeBytes(bytes)

\* deserialize on the serialized form of the signature just calculated
DeserializeSerialized ==
    /\ calc.status = "ok"
    /\ parsed.status = "none"
    /\ indexed.status = "none"
    /\ DeserializeBytes(calc.sig.signature)

Index ==
    /\ indexed.status = "none"
    /\ \/ /\ calc.status = "ok"
          /\ parsed.status = "none"
          /\ indexed' = [status |-> "ok", signature |-> index(calc.sig)]
       \/ /\ calc.status = "none"
          /\ parsed.status = "ok"
          /\ indexed' = [status |-> "ok", signature |-> index(parsed.sig)]
    /\ UNCHANGED <<source, opts, calc, blob, parsed, iter, applied>>
    /\ UNCHANGED diffVars

(***************************************************************************)
(* diff, one action per step.                                              *)
(***************************************************************************)
Count(map, key) == IF key \in DOMAIN map THEN map[key] ELSE 0

\* the history counters stop counting one above the collision limit
Tally(map, key) ==
    [c \in (DOMAIN map) \cup {key} |->
        IF c = key THEN Min(Count(map, key) + 1, MAX_CRC_COLLISIONS + 1)
        ELSE map[c]]

\* diff up to the first evaluation of the outer loop condition, on a sink
\* that fails its fail_at-th write
StartDiff(target, fail_at) ==
    /\ input' = target
    /\ mode' = "diff"
    /\ IF diff_preflight(indexed.signature) = "Ok"
       THEN /\ SinkFrom(NewSink(fail_at), << to_be_bytes(DELTA_MAGIC, 4) >>)
            /\ IF sink'.failed THEN IoError
               ELSE pc' = "outer" /\ result' = "none"
       ELSE /\ out' = out
            /\ sink' = NewSink(fail_at)
            /\ pc' = "done"
            /\ result' = "InvalidSignature"
    /\ state' = NewOutputState
    /\ here' = 0
    /\ collisions' = EmptyMap
    /\ UNCHANGED <<crc, results, ri, hashes, late, applied>>
    /\ UNCHANGED sigVars

DiffBeginOn(targets) ==
    /\ indexed.status = "ok"
    /\ mode = "none"
    /\ \E target \in targets : StartDiff(Whole(target), 0)

DiffBegin == DiffBeginOn(Buffers)

\* the outer loop condition, `data.len() - here >= block_size`; when it holds,
\* the fresh checksum of the window; when it fails, the tail of diff: the
\* final emit and the END opcode.  With here > data.len() the subtraction
\* overflows: a panic in a checked build, and in an unchecked one a huge
\* value, so that the slice data[here..] panics next.
DiffOuter ==
    /\ mode = "diff"
    /\ pc = "outer"
    /\ LET block_size == indexed.signature.block_size IN
       IF here > Len(data)
       THEN /\ pc' = "done"
            /\ result' = "panic"
            /\ UNCHANGED <<crc, state, out, sink>>
       ELSE IF Len(data) - here >= block_size
       THEN /\ crc' = CrcUpdate(CrcNew, SubSeq(data, here + 1, here + block_size))
            /\ pc' = "inner"
            /\ UNCHANGED <<state, out, sink, result>>
       ELSE LET e == emit(state, Len(data), data) IN
            /\ state' = e.state
            /\ Sink(e.writes \o << <<RS_OP_END>> >>)
            /\ IF sink'.failed THEN IoError
               ELSE pc' = "done" /\ result' = "Ok"
            /\ crc' = crc
    /\ UNCHANGED <<mode, input, here, collisions, results, ri, hashes, late, applied>>
    /\ UNCHANGED sigVars

\* one pass through the inner loop of diff
DiffInner ==
    /\ mode = "diff"
    /\ pc = "inner"
    /\ LET signature  == indexed.signature
           block_size == signature.block_size
           window     == SubSeq(data, here + 1, here + block_size)
           probing    == /\ not_blacklisted(collisions, crc)
                         /\ crc \in DOMAIN signature.blocks
           idx        == lookup(signature, crc, window)
       IN  /\ hashes' = IF probing THEN Tally(hashes, crc) ELSE hashes
           /\ late' = IF probing /\ Count(collisions, crc) >= MAX_CRC_COLLISIONS
                      THEN late + 1 ELSE late
           /\ IF probing /\ signature.signature_type = "Blake2"
              THEN \* SignatureType::Blake2 => return Err(InvalidSignature)
                   /\ pc' = "done"
                   /\ result' = "InvalidSignature"
                   /\ UNCHANGED <<here, crc, state, out, sink, collisions>>
              ELSE IF probing /\ idx # -1
              THEN \* match found
                   LET c == copy(state, idx * block_size, block_size, here, data) IN
                   /\ state' = c.state
                   /\ Sink(c.writes)
                   /\ IF sink'.failed
                      THEN IoError /\ here' = here
                      ELSE /\ here' = here + block_size
                           /\ pc' = "outer"
                           /\ result' = result
                   /\ UNCHANGED <<crc, collisions>>
              ELSE \* CRC collision, if the strong hash was tried; then extend
                   /\ collisions' = IF probing THEN bump(collisions, crc) ELSE collisions
                   /\ here' = here + 1
                   /\ IF here + 1 + block_size > Len(data)
                      THEN /\ pc' = "outer"
                           /\ crc' = crc
                      ELSE /\ pc' = "inner"
                           /\ crc' = CrcRotate(crc, block_size, data[here + 1],
                                               data[here + 1 + block_size])
                   /\ UNCHANGED <<state, out, sink, result>>
    /\ UNCHANGED <<mode, input, results, ri, applied>>
    /\ UNCHANGED sigVars

(***************************************************************************)
(* diff_parallel.  The probes of the windows are pure and are collected in *)
(* window order; the streaming loop takes one result per step.             *)
(***************************************************************************)
DiffParallelBeginOn(targets) ==
    /\ indexed.status = "ok"
    /\ mode = "none"
    /\ \E target \in targets :
          IF indexed.signature.signature_type = "Md4"
          THEN \* MD4 is always sequential: return diff(signature, data, out)
               StartDiff(Whole(target), 0)
          ELSE /\ input' = Whole(target)
               /\ mode' = "diff_parallel"
               /\ state' = NewOutputState
               /\ IF diff_parallel_preflight(indexed.signature) # "Ok"
                  THEN /\ pc' = "done"
                       /\ result' = "InvalidSignature"
                       /\ out' = out
                       /\ sink' = NewSink(0)
                       /\ UNCHANGED <<results, ri>>
                  ELSE /\ SinkFrom(NewSink(0), << to_be_bytes(DELTA_MAGIC, 4) >>)
                       /\ IF sink'.failed
                          THEN IoError /\ UNCHANGED <<results, ri>>
                          ELSE IF indexed.signature.block_size = 0
                          THEN \* block_size_usize - 1 overflows, or step_by(0) panics
                               /\ pc' = "done"
                               /\ result' = "panic"
                               /\ UNCHANGED <<results, ri>>
                          ELSE /\ pc' = "stream"
                               /\ result' = "none"
                               /\ results' = parallel_results(indexed.signature, target)
                               /\ ri' = 1
               /\ UNCHANGED <<here, crc, collisions, hashes, late, applied>>
               /\ UNCHANGED sigVars

DiffParallelBegin == DiffParallelBeginOn(Buffers)

\* one pass through `for result in results`, or, after the last one, the
\* final emit and the END opcode
DiffParallelStream ==
    /\ mode = "diff_parallel"
    /\ pc = "stream"
    /\ IF ri <= Len(results)
       THEN /\ IF results[ri] # None
               THEN LET start  == results[ri][1]
                        e      == emit(state, start, data)
                        c      == copy(e.state, results[ri][2], results[ri][3], start, data)
                    IN  /\ state' = c.state
                        /\ Sink(e.writes \o c.writes)
               ELSE UNCHANGED <<state, out, sink>>
            /\ ri' = ri + 1
            /\ IF sink'.failed THEN IoError ELSE UNCHANGED <<pc, result>>
       ELSE LET e == emit(state, Len(data), data) IN
            /\ state' = e.state
            /\ Sink(e.writes \o << <<RS_OP_END>> >>)
            /\ IF sink'.failed THEN IoError
               ELSE pc' = "done" /\ result' = "Ok"
            /\ ri' = ri
    /\ UNCHANGED <<mode, input, here, crc, collisions, results, hashes, late, applied>>
    /\ UNCHANGED sigVars

(***************************************************************************)
(* apply(base, delta), on the delta a completed diff wrote for a signature *)
(* that calculate made of base.                                            *)
(***************************************************************************)
Apply ==
    /\ calc.status = "ok"
    /\ pc = "done"
    /\ result = "Ok"
    /\ applied.status = "none"
    /\ applied' = apply(base, out)
    /\ UNCHANGED sigVars
    /\ UNCHANGED diffVars

Next ==
    \/ Calculate
    \/ Deserialize
    \/ DeserializeSerialized
    \/ Index
    \/ DiffBegin
    \/ DiffOuter
    \/ DiffInner
    \/ DiffParallelBegin
    \/ DiffParallelStream
    \/ Apply

Spec == Init /\ [][Next]_vars

(***************************************************************************)
(* The long-target specification: one base block, the full BLAKE3 or MD4   *)
(* digest, and a target of more than MAX_CRC_COLLISIONS periods.  With     *)
(* block_size 1 every window of the target is the base block; with         *)
(* block_size 4 one window per period has the checksum of the base block   *)
(* <<203,134,134,203>> and other bytes, and no window equals it.           *)
(***************************************************************************)
\* periods of the long targets beyond MAX_CRC_COLLISIONS
DoSExtra == 2

DoSBases == {<<134>>, <<203, 134, 134, 203>>}

\* the period of the long target for a base of one block
DoSUnit(block_size) ==
    IF block_size = 1 THEN <<134>> ELSE <<134, 203, 203>>

CalculateDoS ==
    /\ calc.status = "none"
    /\ \E buf \in DoSBases, a \in HashAlgorithms :
          /\ source' = Whole(buf)
          /\ opts' = [block_size |-> Len(buf), crypto_hash_size |-> max_hash_size(a),
                      hash_algorithm |-> a]
          /\ calc' = [status |-> "ok", sig |-> calculate(buf, opts')]
    /\ UNCHANGED <<blob, parsed, indexed, iter, applied>>
    /\ UNCHANGED diffVars

DiffBeginDoS ==
    /\ indexed.status = "ok"
    /\ mode = "none"
    /\ StartDiff(<< [unit  |-> DoSUnit(indexed.signature.block_size),
                     times |-> MAX_CRC_COLLISIONS + DoSExtra] >>, 0)

NextDoS ==
    \/ CalculateDoS
    \/ Index
    \/ DiffBeginDoS
    \/ DiffOuter
    \/ DiffInner

SpecDoS == Init /\ [][NextDoS]_vars

(***************************************************************************)
(* The single-edit specification: diff on a target that differs from the   *)
(* base in one byte.  The bases are the short buffers of at least two      *)
(* blocks, and one long base of EditBlocks copies of LongBlock, whose      *)
(* target has its first byte changed.                                      *)
(***************************************************************************)
\* blocks of the long base
EditBlocks == 3

EditBases == {b \in Buffers : Len(b) >= 2}

LongSource == Flatten([i \in 1..EditBlocks |-> LongBlockRuns])

\* LongSource with its first byte, a zero, replaced by a one
LongTarget ==
    << [unit |-> <<1>>, times |-> 1],
       [unit |-> <<0>>, times |-> MAX_CRC_COLLISIONS - 1] >>
    \o Tail(LongSource)

CalculateEdit ==
    /\ calc.status = "none"
    /\ \/ \E buf \in EditBases, a \in HashAlgorithms :
            \E bs \in 1..(Len(buf) \div 2), chs \in {1, max_hash_size(a)} :
               /\ source' = Whole(buf)
               /\ opts' = [block_size |-> bs, crypto_hash_size |-> chs,
                           hash_algorithm |-> a]
               /\ calc' = [status |-> "ok", sig |-> calculate(buf, opts')]
       \/ /\ source' = LongSource
          /\ opts' = [block_size |-> Len(LongBlock), crypto_hash_size |-> MD4_SIZE,
                      hash_algorithm |-> "Md4"]
          /\ calc' = [status |-> "ok", sig |-> calculate(Expand(LongSource), opts')]
    /\ UNCHANGED <<blob, parsed, indexed, iter, applied>>
    /\ UNCHANGED diffVars

DiffBeginEdit ==
    /\ indexed.status = "ok"
    /\ mode = "none"
    /\ IF source = LongSource
       THEN StartDiff(LongTarget, 0)
       ELSE \E k \in 1..Len(base) : \E byte \in Alphabet \ {base[k]} :
               StartDiff(Whole([base EXCEPT ![k] = byte]), 0)

NextEdit ==
    \/ CalculateEdit
    \/ Index
    \/ DiffBeginEdit
    \/ DiffOuter
    \/ DiffInner

SpecEdit == Init /\ [][NextEdit]_vars

(***************************************************************************)
(* The failing-sink specification: diff on a signature calculate made with *)
(* valid options, writing to a sink that fails one of its first MaxFailAt  *)
(* writes, or none.                                                        *)
(***************************************************************************)
\* the latest write the sink may fail
MaxFailAt == 6

IoOptions ==
    [block_size : 1..2, crypto_hash_size : {1}, hash_algorithm : HashAlgorithms]

CalculateIo == CalculateOn(Buffers, IoOptions)

DiffBeginIo ==
    /\ indexed.status = "ok"
    /\ mode = "none"
    /\ \E target \in Buffers, fail_at \in 0..MaxFailAt :
          StartDiff(Whole(target), fail_at)

NextIo ==
    \/ CalculateIo
    \/ Index
    \/ DiffBeginIo
    \/ DiffOuter
    \/ DiffInner

SpecIo == Init /\ [][NextIo]_vars

(***************************************************************************)
(* The hash_many specification: blake3_many on a sequence of up to         *)
(* MaxBlocks equal-sized blocks, one Blake3Iterator::next per step.        *)
(***************************************************************************)
MaxBlocks == 3

\* the sequences of up to MaxBlocks blocks of n bytes each, for n = 0, 1, 2
BlockSeqs ==
    UNION {SeqsUpTo({b \in Buffers : Len(b) = n}, MaxBlocks) : n \in 0..2}

\* blake3_many(datas): the iterator is made, nothing is hashed yet
HashManyBegin ==
    /\ ~iter.started
    /\ \E datas \in BlockSeqs :
          iter' = [started |-> TRUE, given |-> datas, inner |-> datas, yielded |-> <<>>]
    /\ UNCHANGED <<source, opts, calc, blob, parsed, indexed, applied>>
    /\ UNCHANGED diffVars

\* one call of next() that yields an item
HashManyNext ==
    /\ iter.started
    /\ iter.inner # <<>>
    /\ LET n == Blake3Iterator_next(iter.inner)
       IN  iter' = [iter EXCEPT !.inner = n.inner, !.yielded = Append(@, n.item)]
    /\ UNCHANGED <<source, opts, calc, blob, parsed, indexed, applied>>
    /\ UNCHANGED diffVars

NextHash ==
    \/ HashManyBegin
    \/ HashManyNext

SpecHash == Init /\ [][NextHash]_vars

(***************************************************************************)
(* Properties.                                                             *)
(***************************************************************************)
\* the options the specification calls valid
ValidOptions(o) ==
    /\ o.block_size > 0
    /\ o.crypto_hash_size > 0
    /\ o.crypto_hash_size <= max_hash_size(o.hash_algorithm)

StrongPrefix(o, block) ==
    SubSeq(IF o.hash_algorithm = "Md4" THEN md4(block) ELSE blake3(block),
           1, o.crypto_hash_size)

\* some block_size-byte window of t carries the checksum and the strong
\* prefix of a block of b whose bytes differ from the window
FalseMatch(b, t, o) ==
    \E i \in 1..Len(chunks(b, o.block_size)), p \in 0..(Len(t) - o.block_size) :
        LET block  == chunks(b, o.block_size)[i]
            window == SubSeq(t, p + 1, p + o.block_size)
        IN  /\ window # block
            /\ CrcUpdate(CrcNew, window) = CrcUpdate(CrcNew, block)
            /\ StrongPrefix(o, window) = StrongPrefix(o, block)

\* a diff or diff_parallel call on a signature calculate made has returned
Returned(m) == mode = m /\ calc.status = "ok" /\ pc = "done"

\* the instructions of the delta in the sink
Instrs == decode(out, 5, <<>>).instrs

Copies == {i \in 1..Len(Instrs) : Instrs[i][1] = "COPY"}

Literals == {i \in 1..Len(Instrs) : Instrs[i][1] = "LITERAL"}

\* C1 as stated: for every base, target and valid options, diff returns Ok
\* and applying its delta to base gives back exactly the target.
C1_RoundTripAlways ==
    (Returned("diff") /\ ValidOptions(opts)) =>
        /\ result = "Ok"
        /\ applied.status # "none" => (applied.status = "Ok" /\ applied.out = data)

\* C1 amended: the round trip of diff holds whenever no window of the target
\* has the checksum and the strong prefix of a base block with other bytes.
C1_RoundTrip ==
    (Returned("diff") /\ ValidOptions(opts) /\ ~FalseMatch(base, data, opts)) =>
        /\ result = "Ok"
        /\ applied.status # "none" => (applied.status = "Ok" /\ applied.out = data)

\* a round trip of diff through a delta that copies and inserts
C1_Witness ==
    /\ Returned("diff") /\ ValidOptions(opts) /\ ~FalseMatch(base, data, opts)
    /\ applied.status = "Ok" /\ applied.out = data
    /\ data # base
    /\ Copies # {} /\ Literals # {}

\* C2 as stated: for every base, target and valid BLAKE3 options the delta
\* of diff_parallel applies to base and gives back exactly the target.
C2_ParallelRoundTripAlways ==
    (Returned("diff_parallel") /\ ValidOptions(opts)) =>
        /\ result = "Ok"
        /\ applied.status # "none" => (applied.status = "Ok" /\ applied.out = data)

\* C2 amended: the round trip of diff_parallel holds whenever no window of
\* the target has the checksum and the strong prefix of a base block with
\* other bytes.
C2_ParallelRoundTrip ==
    (Returned("diff_parallel") /\ ValidOptions(opts) /\ ~FalseMatch(base, data, opts)) =>
        /\ result = "Ok"
        /\ applied.status # "none" => (applied.status = "Ok" /\ applied.out = data)

\* a round trip of diff_parallel through a delta that copies and inserts,
\* for a target the sequential matcher encodes differently
C2_Witness ==
    /\ Returned("diff_parallel") /\ opts.hash_algorithm = "Blake3"
    /\ ValidOptions(opts) /\ ~FalseMatch(base, data, opts)
    /\ applied.status = "Ok" /\ applied.out = data
    /\ Copies # {} /\ Literals # {}
    /\ Instrs[1][1] = "COPY"

\* C3: deserialize of the serialized form of calculate(base, opts) succeeds
\* and returns a Signature equal to the one calculate returned.
C3_SerializationRoundTrip ==
    (calc.status = "ok" /\ parsed.status # "none") =>
        (parsed.status = "ok" /\ parsed.sig = calc.sig)

\* a signature of several blocks, the last one short, went through
C3_Witness ==
    /\ calc.status = "ok" /\ parsed.status = "ok" /\ parsed.sig = calc.sig
    /\ Len(base) > opts.block_size /\ Len(base) % opts.block_size # 0
    /\ opts.crypto_hash_size > 1

\* the condition C4 gives for a blob to be accepted
Acceptable(bytes) ==
    /\ Len(bytes) >= 12
    /\ SubSeq(bytes, 1, 4) \in {to_be_bytes(MD4_MAGIC, 4), to_be_bytes(BLAKE2_MAGIC, 4),
                                to_be_bytes(BLAKE3_MAGIC, 4)}
    /\ (Len(bytes) - 12) % (4 + from_be_bytes(SubSeq(bytes, 9, 12))) = 0

\* C4: deserialize accepts a blob exactly when it is at least 12 bytes long,
\* starts with a recognized magic and its body is a whole number of records;
\* every other blob gets the parse error.
C4_DeserializeAccepts ==
    parsed.status # "none" =>
        /\ parsed.status \in {"ok", "error"}
        /\ parsed.status = "ok" <=> Acceptable(blob)
        /\ parsed.status = "ok" => parsed.sig.signature = blob

\* a blob with a recognized magic refused for its length alone
C4_Witness ==
    /\ parsed.status = "error"
    /\ Len(blob) > 12
    /\ from_magic(SubSeq(blob, 1, 4)) = "Blake2"

\* C5 as stated: calculate panics for every options value with
\* block_size = 0, crypto_hash_size = 0 or crypto_hash_size above the maximum.
C5_PanicsOnEveryInvalid ==
    (calc.status # "none" /\ ~ValidOptions(opts)) => calc.status = "panic"

\* C5 amended: calculate panics exactly when block_size = 0 or
\* crypto_hash_size exceeds the maximum of the family; crypto_hash_size = 0
\* is accepted.
C5_PanicsExactly ==
    calc.status # "none" =>
        (calc.status = "panic" <=>
            \/ opts.block_size = 0
            \/ opts.crypto_hash_size > max_hash_size(opts.hash_algorithm))

\* calculate panicked on a crypto_hash_size one above the maximum
C5_Witness ==
    /\ calc.status = "panic"
    /\ opts.block_size > 0
    /\ opts.crypto_hash_size = max_hash_size(opts.hash_algorithm) + 1

\* C6: a well-formed blob with the BLAKE2 magic passes deserialize; diff on
\* a BLAKE2 signature, or on one whose crypto_hash_size exceeds the maximum
\* of its family, fails with InvalidSignature and leaves the sink empty.
C6_PreflightRejects ==
    /\ (parsed.status # "none" /\ Acceptable(blob)
          /\ SubSeq(blob, 1, 4) = to_be_bytes(BLAKE2_MAGIC, 4))
         => (parsed.status = "ok" /\ parsed.sig.signature_type = "Blake2")
    /\ (mode = "diff" /\
          \/ indexed.signature.signature_type = "Blake2"
          \/ indexed.signature.signature_type = "Md4"
               /\ indexed.signature.crypto_hash_size > 16
          \/ indexed.signature.signature_type = "Blake3"
               /\ indexed.signature.crypto_hash_size > 32)
         => (pc = "done" /\ result = "InvalidSignature" /\ out = <<>>)

\* diff refused a BLAKE2 signature that deserialize had accepted, for a
\* target that is not empty
C6_Witness ==
    /\ mode = "diff" /\ parsed.status = "ok"
    /\ indexed.signature.signature_type = "Blake2"
    /\ result = "InvalidSignature" /\ out = <<>> /\ data # <<>>

\* C7 as stated: on every signature calculate produced or deserialize
\* accepted, diff returns Ok or an error; it never panics.
C7_DiffNeverPanics ==
    mode = "diff" => result # "panic"

\* C8 as stated: within one run of diff, at most MAX_CRC_COLLISIONS strong
\* hashes are computed for the windows of any one checksum.
C8_StrongHashesBounded ==
    \A c \in DOMAIN hashes : hashes[c] <= MAX_CRC_COLLISIONS

\* C8 amended: within one run of diff, at most MAX_CRC_COLLISIONS strong
\* hashes that find no block are computed for any one checksum, and once a
\* checksum has that many no strong hash is computed for it again; strong
\* hashes that find a block are not counted.
C8_CollisionsBounded ==
    /\ \A c \in DOMAIN collisions : collisions[c] <= MAX_CRC_COLLISIONS
    /\ late = 0

\* the window at hand has a checksum of the index that is at the limit: all
\* of its MAX_CRC_COLLISIONS strong hashes failed, and this one is skipped
C8_Witness ==
    /\ mode = "diff" /\ pc = "inner"
    /\ crc \in DOMAIN indexed.signature.blocks
    /\ Count(collisions, crc) = MAX_CRC_COLLISIONS
    /\ Count(hashes, crc) = MAX_CRC_COLLISIONS

\* diff has returned Ok for a target equal to the base of its signature
IdentityRun ==
    Returned("diff") /\ result = "Ok" /\ data = base /\ ValidOptions(opts)

RECURSIVE SumLens(_, _)
\* the lengths of the first n instructions, all of them copies, added up
SumLens(instrs, n) == IF n = 0 THEN 0 ELSE SumLens(instrs, n - 1) + instrs[n][3]

\* every instruction is a COPY, the first at offset 0, each one starting
\* where the one before it ends, the last one ending at the end of b
ContiguousCover(instrs, b) ==
    /\ \A i \in 1..Len(instrs) :
          /\ instrs[i][1] = "COPY"
          /\ instrs[i][3] > 0
          /\ instrs[i][2] = IF i = 1 THEN 0 ELSE instrs[i - 1][2] + instrs[i - 1][3]
    /\ IF instrs = <<>> THEN b = <<>>
       ELSE instrs[Len(instrs)][2] + instrs[Len(instrs)][3] = Len(b)

\* no two blocks of b have the same checksum and the same strong prefix
DistinctRecords(b, o) ==
    \A i, j \in 1..Len(chunks(b, o.block_size)) :
        i # j => \/ CrcUpdate(CrcNew, chunks(b, o.block_size)[i])
                      # CrcUpdate(CrcNew, chunks(b, o.block_size)[j])
                 \/ StrongPrefix(o, chunks(b, o.block_size)[i])
                      # StrongPrefix(o, chunks(b, o.block_size)[j])

\* C9 as stated: with target = base the delta is the magic, then only COPY
\* instructions whose ranges are contiguous and cover [0, |base|), then END.
C9_IdentityCoversBase ==
    IdentityRun =>
        /\ decode(out, 5, <<>>).status = "Ok"
        /\ ContiguousCover(Instrs, base)

\* C9 amended: with target = base the delta is the magic, then COPY
\* instructions for the full blocks alone, each a positive multiple of
\* block_size long and block_size * (|base| div block_size) bytes together,
\* then one literal with the final partial block if there is one, then END;
\* the COPY ranges are contiguous and cover [0, |base|) when |base| is a
\* multiple of block_size and no two blocks share checksum and strong prefix.
C9_IdentityDelta ==
    IdentityRun =>
        LET bs == opts.block_size
            n  == Cardinality(Copies)
        IN  /\ SubSeq(out, 1, 4) = to_be_bytes(DELTA_MAGIC, 4)
            /\ decode(out, 5, <<>>).status = "Ok"
            /\ Copies = 1..n
            /\ \A i \in Copies : Instrs[i][3] > 0 /\ Instrs[i][3] % bs = 0
            /\ SumLens(Instrs, n) = bs * (Len(base) \div bs)
            /\ IF Len(base) % bs = 0 THEN Len(Instrs) = n
               ELSE /\ Len(Instrs) = n + 1
                    /\ Instrs[n + 1] = <<"LITERAL", remainder(base, bs)>>
            /\ (Len(base) % bs = 0 /\ DistinctRecords(base, opts))
                 => ContiguousCover(Instrs, base)

\* an identity delta over several distinct blocks: copies only, covering base
C9_Witness ==
    /\ IdentityRun
    /\ Len(base) % opts.block_size = 0 /\ Len(base) > opts.block_size
    /\ DistinctRecords(base, opts)
    /\ Instrs # <<>> /\ ContiguousCover(Instrs, base)

\* b is k >= 2 full blocks with the same bytes
RepeatedBlocks(b, bs) ==
    /\ Len(b) % bs = 0
    /\ Len(b) \div bs >= 2
    /\ \A i \in 1..Len(chunks(b, bs)) : chunks(b, bs)[i] = chunks(b, bs)[1]

\* C10 as stated: for a base of k >= 2 identical full blocks and target =
\* base, diff writes exactly one COPY, of offset 0 and length |base|.
C10_RepeatedBlocksOneCopy ==
    (IdentityRun /\ RepeatedBlocks(base, opts.block_size)) =>
        Instrs = << <<"COPY", 0, Len(base)>> >>

\* C10 amended: for a base of k >= 2 identical full blocks and target =
\* base, diff writes exactly k COPY instructions and nothing else, each of
\* length block_size and all of the same offset, that of the one block the
\* index keeps for the record the blocks share; they are not coalesced.
C10_RepeatedBlocksManyCopies ==
    (IdentityRun /\ RepeatedBlocks(base, opts.block_size)) =>
        /\ decode(out, 5, <<>>).status = "Ok"
        /\ Len(Instrs) = Len(base) \div opts.block_size
        /\ \A i \in 1..Len(Instrs) :
              /\ Instrs[i][1] = "COPY"
              /\ Instrs[i][3] = opts.block_size
              /\ Instrs[i][2] = Instrs[1][2]
        /\ Instrs[1][2] % opts.block_size = 0
        /\ Instrs[1][2] + opts.block_size <= Len(base)

\* the identity delta of a base of two identical blocks of two bytes
C10_Witness ==
    /\ IdentityRun /\ RepeatedBlocks(base, opts.block_size)
    /\ opts.block_size = 2 /\ Len(base) = 4
    /\ Len(Instrs) = 2 /\ Instrs[1] = Instrs[2]

(***************************************************************************)
(* The one-byte-prefix scenario.                                           *)
(***************************************************************************)
\* base is block_size copies of one byte, the target is another byte
\* followed by the first block_size - 1 bytes of base, and diff has returned
OneBytePrefixRun ==
    /\ Returned("diff") /\ result = "Ok" /\ ValidOptions(opts)
    /\ Len(base) = opts.block_size
    /\ \A i \in 1..Len(base) : base[i] = base[1]
    /\ Len(data) = Len(base)
    /\ data[1] # base[1]
    /\ SubSeq(data, 2, Len(data)) = SubSeq(base, 1, Len(base) - 1)

\* C11 as stated: in the one-byte-prefix scenario diff writes no COPY and
\* two literal instructions, a LITERAL_1 carrying the new byte and then a
\* literal carrying the remaining block_size - 1 bytes (stated for
\* block_size >= 2, where there are remaining bytes).
C11_TwoLiterals ==
    (OneBytePrefixRun /\ opts.block_size >= 2) =>
        /\ Copies = {}
        /\ out[5] = RS_OP_LITERAL_1
        /\ Instrs = << <<"LITERAL", SubSeq(data, 1, 1)>>,
                       <<"LITERAL", SubSeq(data, 2, Len(data))>> >>

\* C11 amended: in the one-byte-prefix scenario diff writes no COPY and one
\* literal instruction that carries all block_size bytes of the target; up
\* to 64 bytes its opcode is RS_OP_LITERAL_1 + block_size - 1.
C11_OneLiteral ==
    OneBytePrefixRun =>
        /\ Copies = {}
        /\ Instrs = << <<"LITERAL", data>> >>
        /\ opts.block_size <= 64 =>
              out = to_be_bytes(DELTA_MAGIC, 4)
                    \o <<RS_OP_LITERAL_1 + opts.block_size - 1>> \o data \o <<RS_OP_END>>

\* the scenario with a block of several bytes
C11_Witness ==
    /\ OneBytePrefixRun
    /\ opts.block_size >= 3
    /\ Len(Instrs) = 1 /\ Len(Instrs[1][2]) = opts.block_size

(***************************************************************************)
(* Small edit locality.                                                    *)
(***************************************************************************)
RECURSIVE LiteralBytes(_, _)
\* the payload bytes of the literal instructions among the first n
LiteralBytes(instrs, n) ==
    IF n = 0 THEN 0
    ELSE LiteralBytes(instrs, n - 1)
         + (IF instrs[n][1] = "LITERAL" THEN Len(instrs[n][2]) ELSE 0)

\* diff has returned Ok for a base of at least two blocks and a target of
\* the same length that differs from it in exactly one byte
SingleEditRun ==
    /\ Returned("diff") /\ result = "Ok" /\ ValidOptions(opts)
    /\ Len(base) >= 2 * opts.block_size
    /\ Len(data) = Len(base)
    /\ Cardinality({i \in 1..Len(base) : data[i] # base[i]}) = 1

\* no checksum reached MAX_CRC_COLLISIONS failed comparisons in the run
NothingBlacklisted ==
    \A c \in DOMAIN collisions : collisions[c] < MAX_CRC_COLLISIONS

\* C12 as stated: for every base of at least 2 * block_size bytes and every
\* target that differs from it in exactly one byte, the literal instructions
\* of the delta carry at most 2 * block_size payload bytes.
C12_EditLocality ==
    SingleEditRun => LiteralBytes(Instrs, Len(Instrs)) <= 2 * opts.block_size

\* C12 amended: the bound of 2 * block_size literal payload bytes holds for
\* a single-byte edit whenever no checksum was blacklisted during the run.
C12_EditLocalityUnlessBlacklisted ==
    (SingleEditRun /\ NothingBlacklisted) =>
        LiteralBytes(Instrs, Len(Instrs)) <= 2 * opts.block_size

\* a single-byte edit whose delta copies the untouched block and carries
\* the touched block of two bytes as a literal
C12_Witness ==
    /\ SingleEditRun /\ NothingBlacklisted
    /\ Copies # {}
    /\ opts.block_size = 2
    /\ LiteralBytes(Instrs, Len(Instrs)) = opts.block_size

(***************************************************************************)
(* Sink failure propagation.                                               *)
(***************************************************************************)
\* C13: once a write to the sink has failed, diff has returned
\* DiffError::Io and the failed write is the last one it attempted; diff
\* returns Io only after a failed write; and a diff on a valid signature
\* that returns without a failed write returns Ok.
C13_SinkFailurePropagates ==
    (mode = "diff" /\ calc.status = "ok" /\ ValidOptions(opts)) =>
        /\ sink.failed =>
              /\ pc = "done" /\ result = "Io"
              /\ sink.attempts = sink.fail_at
        /\ result = "Io" => sink.failed
        /\ (pc = "done" /\ ~sink.failed) => result = "Ok"

\* the sink took the magic and a whole instruction and failed a later write
C13_Witness ==
    /\ mode = "diff" /\ calc.status = "ok" /\ ValidOptions(opts)
    /\ sink.failed /\ result = "Io"
    /\ sink.fail_at >= 4
    /\ Len(out) > 4

(***************************************************************************)
(* hash_many.                                                              *)
(***************************************************************************)
\* C14: blake3_many yields as many items as it was given blocks (the items
\* yielded and the blocks left always add up to the blocks given), the i-th
\* item is the i-th block paired with the BLAKE3 digest of that block, every
\* digest has 32 bytes, and equal blocks get equal digests.
C14_HashManyOrderAndLength ==
    iter.started =>
        /\ Len(iter.yielded) + Len(iter.inner) = Len(iter.given)
        /\ \A i \in 1..Len(iter.yielded) :
              /\ iter.yielded[i][1] = iter.given[i]
              /\ iter.yielded[i][2] = Blake3Digests[iter.given[i]]
              /\ Len(iter.yielded[i][2]) = BLAKE3_SIZE
        /\ \A i, j \in 1..Len(iter.yielded) :
              iter.given[i] = iter.given[j] => iter.yielded[i][2] = iter.yielded[j][2]
        /\ iter.inner = <<>> => iter.yielded = blake3_many(iter.given)

\* an exhausted iterator over three blocks, the first and the third equal
C14_Witness ==
    /\ iter.started /\ iter.inner = <<>>
    /\ Len(iter.given) = 3 /\ Len(iter.yielded) = 3
    /\ iter.given[1] # iter.given[2] /\ iter.given[1] = iter.given[3]

(***************************************************************************)
(* Coalescing in diff_parallel.                                            *)
(***************************************************************************)
\* diff_parallel has returned Ok on a BLAKE3 signature for a target equal to a
\* base of two or more
\* full blocks, no two of them with the same record
ParallelIdentityRun ==
    /\ Returned("diff_parallel") /\ result = "Ok" /\ ValidOptions(opts)
    /\ opts.hash_algorithm = "Blake3"
    /\ data = base
    /\ Len(base) % opts.block_size = 0
    /\ Len(base) >= 2 * opts.block_size
    /\ DistinctRecords(base, opts)

\* C15: diff_parallel coalesces the copies of consecutive windows that match
\* contiguous base blocks; for a target equal to a base of pairwise distinct
\* full blocks it writes a single COPY of offset 0 and length |base|.
C15_ParallelCoalesces ==
    ParallelIdentityRun => Instrs = << <<"COPY", 0, Len(base)>> >>

(***************************************************************************)
(* The matcher state at the outer loop condition of diff.                  *)
(***************************************************************************)
RECURSIVE Represents(_, _, _, _)
\* the first n instructions stand for the bytes t[1..pos], the payload of
\* every literal being the bytes of t at its place: pos, or -1 if not so
Represents(instrs, n, t, pos) ==
    IF n > Len(instrs) THEN pos
    ELSE IF instrs[n][1] = "COPY"
    THEN Represents(instrs, n + 1, t, pos + instrs[n][3])
    ELSE IF /\ pos + Len(instrs[n][2]) <= Len(t)
            /\ instrs[n][2] = SubSeq(t, pos + 1, pos + Len(instrs[n][2]))
    THEN Represents(instrs, n + 1, t, pos + Len(instrs[n][2]))
    ELSE -1

\* diff is at its outer loop condition, on a signature of block_size >= 1
AtOuterCondition ==
    mode = "diff" /\ pc = "outer" /\ indexed.signature.block_size >= 1

\* C16: at every evaluation of the outer loop condition of diff, with
\* block_size >= 1, emitted <= here <= |target|; a queued copy has a length
\* that is a positive multiple of block_size, an offset that is a multiple
\* of block_size, and emitted + len <= here; and the instructions written
\* to the sink stand for exactly the bytes target[0..emitted].
C16_MatcherStateInvariant ==
    AtOuterCondition =>
        /\ state.emitted <= here
        /\ here <= Len(data)
        /\ state.queued_copy # None =>
              /\ state.queued_copy[2] > 0
              /\ state.queued_copy[2] % indexed.signature.block_size = 0
              /\ state.queued_copy[1] % indexed.signature.block_size = 0
              /\ state.emitted + state.queued_copy[2] <= here
        /\ Represents(Instrs, 1, data, 0) = state.emitted

\* the outer condition with instructions written and a copy of two blocks
\* queued behind them
C16_Witness ==
    /\ AtOuterCondition
    /\ state.emitted > 0
    /\ Instrs # <<>>
    /\ state.queued_copy # None
    /\ state.queued_copy[2] = 2 * indexed.signature.block_size

====
